---------------------------- MODULE Spec2Model ----------------------------
(***************************************************************************)
(* A model of src/server.js: an Express server that answers player, ban    *)
(* and flea-market lookups from an in-memory TTL cache (getFromCache) in   *)
(* front of two upstream services, behind a per-client rate limiter, with  *)
(* two admin endpoints that invalidate the cache.                          *)
(*                                                                         *)
(* Node runs a piece of code to its next await without interleaving, and   *)
(* runs the continuation of an await or a .then as a promise job of its    *)
(* own, after the jobs queued before it.  A step of the model is one such  *)
(* piece:                                                                  *)
(*   Arrive           cors, express.json, the limiter and the routed       *)
(*                    handler up to its await (a handler without an await, *)
(*                    or one that returns before it, answers in this       *)
(*                    step; a cache hit queues the handler's continuation);*)
(*   UpstreamDone     the axios call of a request settles, which queues    *)
(*                    the continuation of the producer;                    *)
(*   ProducerResumes  the rest of fn(): the value or the error it settles  *)
(*                    with;                                                *)
(*   ThenCallback     the .then of getFromCache (cache.set);               *)
(*   HandlerResumes   the handler after its await: res.json, or its catch. *)
(* Time is Date.now() in milliseconds.                                     *)
(***************************************************************************)
EXTENDS Integers, Sequences, FiniteSets, TLC

VARIABLES
    now,        \* Date.now()
    cache,      \* the Map `cache`: key -> [data, timestamp]
    hits,       \* the limiter's table: client -> [count, windowStart]
    inflight,   \* requests awaiting their upstream call
    jobs,       \* the continuations queued and not yet run, oldest first
    nreq,       \* number of requests received so far (the next id is nreq + 1)
    writer,     \* history: key -> ids of the requests whose producers wrote the
                \* entry since it was last created, in the order of their writes
    granted,    \* history: client -> admissions since the client's window started
    origin,     \* history: key -> the latest write under the key, ever: the
                \* request, the upstream outcome, the time of the write, and
                \* the number of writes under the key so far
    admits,     \* history: client -> instant -> admissions at that instant
    workload,   \* the request shapes the clients of this run send, the instants
                \* at which they send, and process.env
    last        \* what the latest step did and the response it sent

vars == <<now, cache, hits, inflight, jobs, nreq, writer, granted, origin, admits,
          workload, last>>

----------------------------------------------------------------------------
(* Program constants                                                       *)

WINDOW_MS == 15 * 60 * 1000
\* Mutant: the ceiling is one too low.
RATE_MAX_OffByOne == 100 - 1
\* Mutant: the ceiling is one too high.
RATE_MAX_OneMore == 100 + 1
RATE_MAX == 100
RATE_MESSAGE == "Too many requests from this IP, please try again later."
CACHE_DURATION == 5 * 60 * 1000
BAN_CHECK_DURATION == 15 * 60 * 1000
BAN_STATS_DURATION == 60 * 60 * 1000
TRENDING_DURATION == 10 * 60 * 1000
HISTORY_DURATION == 60 * 60 * 1000
GRAPHQL_TIMEOUT == 10000
BAN_API_TIMEOUT == 8000
HISTORY_TIMEOUT == 10000
DEFAULT_ADMIN_KEY == "admin-secret-key"

----------------------------------------------------------------------------
(* JavaScript strings.  A string is the sequence of its UTF-16 code units, *)
(* as numbers, so that length, toLowerCase, parseInt and the username      *)
(* pattern are computed as JavaScript computes them.                       *)

Undefined == [t |-> "undefined"]
Null == [t |-> "null"]
Str(units) == [t |-> "string", s |-> units]
IsStr(v) == v.t = "string"

\* The printable ASCII characters, code units 32..126 in order; the grave
\* accent (96) stands as its escape.
AsciiChars ==
    <<" ", "!", "\"", "#", "$", "%", "&", "'", "(", ")", "*", "+", ",", "-", ".", "/",
      "0", "1", "2", "3", "4", "5", "6", "7", "8", "9", ":", ";", "<", "=", ">", "?",
      "@", "A", "B", "C", "D", "E", "F", "G", "H", "I", "J", "K", "L", "M", "N", "O",
      "P", "Q", "R", "S", "T", "U", "V", "W", "X", "Y", "Z", "[", "\\", "]", "^", "_",
      "\\u0060", "a", "b", "c", "d", "e", "f", "g", "h", "i", "j", "k", "l", "m", "n", "o",
      "p", "q", "r", "s", "t", "u", "v", "w", "x", "y", "z", "{", "|", "}", "~">>

\* The code unit of a printable ASCII character, and the code units of a
\* text given character by character.
CodeOf(c) == 31 + CHOOSE i \in DOMAIN AsciiChars : AsciiChars[i] = c
Utf16(chars) == [i \in DOMAIN chars |-> CodeOf(chars[i])]

HexDigits ==
    <<"0", "1", "2", "3", "4", "5", "6", "7", "8", "9", "a", "b", "c", "d", "e", "f">>
Hex4(u) ==
    HexDigits[((u \div 4096) % 16) + 1] \o HexDigits[((u \div 256) % 16) + 1]
    \o HexDigits[((u \div 16) % 16) + 1] \o HexDigits[(u % 16) + 1]

\* A string as it is written in a JavaScript literal: a printable ASCII
\* character stands for itself, a backslash is doubled, and any other code
\* unit is written \uXXXX.  Different strings have different writings.
Written(u) ==
    IF u = 92 THEN "\\\\"
    ELSE IF u \in 32..126 THEN AsciiChars[u - 31]
    ELSE "\\u" \o Hex4(u)
FirstHalf(s) == SubSeq(s, 1, Len(s) \div 2)
SecondHalf(s) == SubSeq(s, (Len(s) \div 2) + 1, Len(s))
RECURSIVE Join(_)
Join(units) ==
    IF units = <<>> THEN ""
    ELSE IF Len(units) = 1 THEN Written(units[1])
    ELSE Join(FirstHalf(units)) \o Join(SecondHalf(units))

UpperLetters == 65..90
LowerLetters == 97..122
Digits == 48..57

(* String.prototype.toLowerCase: the default Unicode lower-casing of the   *)
(* code points of the string.  LowerRanges lists the code points with a single  *)
(* lower-case counterpart as <<first, last, step, delta>>: every step-th   *)
(* code point from first to last maps to itself plus delta.  CasedRanges   *)
(* and CaseIgnorableRanges list, as <<first, last>>, the code points with  *)
(* the properties Cased and Case_Ignorable that decide the form of sigma.  *)
LowerRanges ==
    <<<<65, 90, 1, 32>>, <<192, 214, 1, 32>>, <<216, 222, 1, 32>>,
      <<256, 302, 2, 1>>, <<306, 310, 2, 1>>, <<313, 327, 2, 1>>,
      <<330, 374, 2, 1>>, <<376, 376, 1, -121>>, <<377, 381, 2, 1>>,
      <<385, 385, 1, 210>>, <<386, 388, 2, 1>>, <<390, 390, 1, 206>>,
      <<391, 391, 1, 1>>, <<393, 394, 1, 205>>, <<395, 395, 1, 1>>,
      <<398, 398, 1, 79>>, <<399, 399, 1, 202>>, <<400, 400, 1, 203>>,
      <<401, 401, 1, 1>>, <<403, 403, 1, 205>>, <<404, 404, 1, 207>>,
      <<406, 406, 1, 211>>, <<407, 407, 1, 209>>, <<408, 408, 1, 1>>,
      <<412, 412, 1, 211>>, <<413, 413, 1, 213>>, <<415, 415, 1, 214>>,
      <<416, 420, 2, 1>>, <<422, 422, 1, 218>>, <<423, 423, 1, 1>>,
      <<425, 425, 1, 218>>, <<428, 428, 1, 1>>, <<430, 430, 1, 218>>,
      <<431, 431, 1, 1>>, <<433, 434, 1, 217>>, <<435, 437, 2, 1>>,
      <<439, 439, 1, 219>>, <<440, 440, 1, 1>>, <<444, 444, 1, 1>>,
      <<452, 452, 1, 2>>, <<453, 453, 1, 1>>, <<455, 455, 1, 2>>,
      <<456, 456, 1, 1>>, <<458, 458, 1, 2>>, <<459, 475, 2, 1>>,
      <<478, 494, 2, 1>>, <<497, 497, 1, 2>>, <<498, 500, 2, 1>>,
      <<502, 502, 1, -97>>, <<503, 503, 1, -56>>, <<504, 542, 2, 1>>,
      <<544, 544, 1, -130>>, <<546, 562, 2, 1>>, <<570, 570, 1, 10795>>,
      <<571, 571, 1, 1>>, <<573, 573, 1, -163>>, <<574, 574, 1, 10792>>,
      <<577, 577, 1, 1>>, <<579, 579, 1, -195>>, <<580, 580, 1, 69>>,
      <<581, 581, 1, 71>>, <<582, 590, 2, 1>>, <<880, 882, 2, 1>>,
      <<886, 886, 1, 1>>, <<895, 895, 1, 116>>, <<902, 902, 1, 38>>,
      <<904, 906, 1, 37>>, <<908, 908, 1, 64>>, <<910, 911, 1, 63>>,
      <<913, 929, 1, 32>>, <<932, 939, 1, 32>>, <<975, 975, 1, 8>>,
      <<984, 1006, 2, 1>>, <<1012, 1012, 1, -60>>, <<1015, 1015, 1, 1>>,
      <<1017, 1017, 1, -7>>, <<1018, 1018, 1, 1>>, <<1021, 1023, 1, -130>>,
      <<1024, 1039, 1, 80>>, <<1040, 1071, 1, 32>>, <<1120, 1152, 2, 1>>,
      <<1162, 1214, 2, 1>>, <<1216, 1216, 1, 15>>, <<1217, 1229, 2, 1>>,
      <<1232, 1326, 2, 1>>, <<1329, 1366, 1, 48>>, <<4256, 4293, 1, 7264>>,
      <<4295, 4295, 1, 7264>>, <<4301, 4301, 1, 7264>>,
      <<5024, 5103, 1, 38864>>, <<5104, 5109, 1, 8>>, <<7305, 7305, 1, 1>>,
      <<7312, 7354, 1, -3008>>, <<7357, 7359, 1, -3008>>,
      <<7680, 7828, 2, 1>>, <<7838, 7838, 1, -7615>>, <<7840, 7934, 2, 1>>,
      <<7944, 7951, 1, -8>>, <<7960, 7965, 1, -8>>, <<7976, 7983, 1, -8>>,
      <<7992, 7999, 1, -8>>, <<8008, 8013, 1, -8>>, <<8025, 8031, 2, -8>>,
      <<8040, 8047, 1, -8>>, <<8072, 8079, 1, -8>>, <<8088, 8095, 1, -8>>,
      <<8104, 8111, 1, -8>>, <<8120, 8121, 1, -8>>, <<8122, 8123, 1, -74>>,
      <<8124, 8124, 1, -9>>, <<8136, 8139, 1, -86>>, <<8140, 8140, 1, -9>>,
      <<8152, 8153, 1, -8>>, <<8154, 8155, 1, -100>>, <<8168, 8169, 1, -8>>,
      <<8170, 8171, 1, -112>>, <<8172, 8172, 1, -7>>,
      <<8184, 8185, 1, -128>>, <<8186, 8187, 1, -126>>,
      <<8188, 8188, 1, -9>>, <<8486, 8486, 1, -7517>>,
      <<8490, 8490, 1, -8383>>, <<8491, 8491, 1, -8262>>,
      <<8498, 8498, 1, 28>>, <<8544, 8559, 1, 16>>, <<8579, 8579, 1, 1>>,
      <<9398, 9423, 1, 26>>, <<11264, 11311, 1, 48>>, <<11360, 11360, 1, 1>>,
      <<11362, 11362, 1, -10743>>, <<11363, 11363, 1, -3814>>,
      <<11364, 11364, 1, -10727>>, <<11367, 11371, 2, 1>>,
      <<11373, 11373, 1, -10780>>, <<11374, 11374, 1, -10749>>,
      <<11375, 11375, 1, -10783>>, <<11376, 11376, 1, -10782>>,
      <<11378, 11378, 1, 1>>, <<11381, 11381, 1, 1>>,
      <<11390, 11391, 1, -10815>>, <<11392, 11490, 2, 1>>,
      <<11499, 11501, 2, 1>>, <<11506, 11506, 1, 1>>, <<42560, 42604, 2, 1>>,
      <<42624, 42650, 2, 1>>, <<42786, 42798, 2, 1>>, <<42802, 42862, 2, 1>>,
      <<42873, 42875, 2, 1>>, <<42877, 42877, 1, -35332>>,
      <<42878, 42886, 2, 1>>, <<42891, 42891, 1, 1>>,
      <<42893, 42893, 1, -42280>>, <<42896, 42898, 2, 1>>,
      <<42902, 42920, 2, 1>>, <<42922, 42922, 1, -42308>>,
      <<42923, 42923, 1, -42319>>, <<42924, 42924, 1, -42315>>,
      <<42925, 42925, 1, -42305>>, <<42926, 42926, 1, -42308>>,
      <<42928, 42928, 1, -42258>>, <<42929, 42929, 1, -42282>>,
      <<42930, 42930, 1, -42261>>, <<42931, 42931, 1, 928>>,
      <<42932, 42946, 2, 1>>, <<42948, 42948, 1, -48>>,
      <<42949, 42949, 1, -42307>>, <<42950, 42950, 1, -35384>>,
      <<42951, 42953, 2, 1>>, <<42955, 42955, 1, -42343>>,
      <<42956, 42970, 2, 1>>, <<42972, 42972, 1, -42561>>,
      <<42997, 42997, 1, 1>>, <<65313, 65338, 1, 32>>,
      <<66560, 66599, 1, 40>>, <<66736, 66771, 1, 40>>,
      <<66928, 66938, 1, 39>>, <<66940, 66954, 1, 39>>,
      <<66956, 66962, 1, 39>>, <<66964, 66965, 1, 39>>,
      <<68736, 68786, 1, 64>>, <<68944, 68965, 1, 32>>,
      <<71840, 71871, 1, 32>>, <<93760, 93791, 1, 32>>,
      <<93856, 93880, 1, 27>>, <<125184, 125217, 1, 34>>>>

CasedRanges ==
    <<<<65, 90>>, <<97, 122>>, <<170, 170>>, <<181, 181>>, <<186, 186>>,
      <<192, 214>>, <<216, 246>>, <<248, 442>>, <<444, 447>>, <<452, 659>>,
      <<662, 687>>, <<880, 883>>, <<886, 887>>, <<891, 893>>, <<895, 895>>,
      <<902, 902>>, <<904, 906>>, <<908, 908>>, <<910, 929>>, <<931, 1013>>,
      <<1015, 1153>>, <<1162, 1327>>, <<1329, 1366>>, <<1376, 1416>>,
      <<4256, 4293>>, <<4295, 4295>>, <<4301, 4301>>, <<4304, 4346>>,
      <<4349, 4351>>, <<5024, 5109>>, <<5112, 5117>>, <<7296, 7306>>,
      <<7312, 7354>>, <<7357, 7359>>, <<7424, 7467>>, <<7531, 7543>>,
      <<7545, 7578>>, <<7680, 7957>>, <<7960, 7965>>, <<7968, 8005>>,
      <<8008, 8013>>, <<8016, 8023>>, <<8025, 8025>>, <<8027, 8027>>,
      <<8029, 8029>>, <<8031, 8061>>, <<8064, 8116>>, <<8118, 8124>>,
      <<8126, 8126>>, <<8130, 8132>>, <<8134, 8140>>, <<8144, 8147>>,
      <<8150, 8155>>, <<8160, 8172>>, <<8178, 8180>>, <<8182, 8188>>,
      <<8450, 8450>>, <<8455, 8455>>, <<8458, 8467>>, <<8469, 8469>>,
      <<8473, 8477>>, <<8484, 8484>>, <<8486, 8486>>, <<8488, 8488>>,
      <<8490, 8493>>, <<8495, 8500>>, <<8505, 8505>>, <<8508, 8511>>,
      <<8517, 8521>>, <<8526, 8526>>, <<8544, 8575>>, <<8579, 8580>>,
      <<9398, 9449>>, <<11264, 11387>>, <<11390, 11492>>, <<11499, 11502>>,
      <<11506, 11507>>, <<11520, 11557>>, <<11559, 11559>>, <<11565, 11565>>,
      <<42560, 42605>>, <<42624, 42651>>, <<42786, 42863>>, <<42865, 42887>>,
      <<42891, 42894>>, <<42896, 42972>>, <<42997, 42998>>, <<43002, 43002>>,
      <<43824, 43866>>, <<43872, 43880>>, <<43888, 43967>>, <<64256, 64262>>,
      <<64275, 64279>>, <<65313, 65338>>, <<65345, 65370>>, <<66560, 66639>>,
      <<66736, 66771>>, <<66776, 66811>>, <<66928, 66938>>, <<66940, 66954>>,
      <<66956, 66962>>, <<66964, 66965>>, <<66967, 66977>>, <<66979, 66993>>,
      <<66995, 67001>>, <<67003, 67004>>, <<68736, 68786>>, <<68800, 68850>>,
      <<68944, 68965>>, <<68976, 68997>>, <<71840, 71903>>, <<93760, 93823>>,
      <<93856, 93880>>, <<93883, 93907>>, <<119808, 119892>>,
      <<119894, 119964>>, <<119966, 119967>>, <<119970, 119970>>,
      <<119973, 119974>>, <<119977, 119980>>, <<119982, 119993>>,
      <<119995, 119995>>, <<119997, 120003>>, <<120005, 120069>>,
      <<120071, 120074>>, <<120077, 120084>>, <<120086, 120092>>,
      <<120094, 120121>>, <<120123, 120126>>, <<120128, 120132>>,
      <<120134, 120134>>, <<120138, 120144>>, <<120146, 120485>>,
      <<120488, 120512>>, <<120514, 120538>>, <<120540, 120570>>,
      <<120572, 120596>>, <<120598, 120628>>, <<120630, 120654>>,
      <<120656, 120686>>, <<120688, 120712>>, <<120714, 120744>>,
      <<120746, 120770>>, <<120772, 120779>>, <<122624, 122633>>,
      <<122635, 122654>>, <<122661, 122666>>, <<125184, 125251>>,
      <<127280, 127305>>, <<127312, 127337>>, <<127344, 127369>>>>

CaseIgnorableRanges ==
    <<<<39, 39>>, <<46, 46>>, <<58, 58>>, <<94, 94>>, <<96, 96>>, <<168, 168>>,
      <<173, 173>>, <<175, 175>>, <<180, 180>>, <<183, 184>>, <<688, 879>>,
      <<884, 885>>, <<890, 890>>, <<900, 901>>, <<903, 903>>, <<1155, 1161>>,
      <<1369, 1369>>, <<1375, 1375>>, <<1425, 1469>>, <<1471, 1471>>,
      <<1473, 1474>>, <<1476, 1477>>, <<1479, 1479>>, <<1524, 1524>>,
      <<1536, 1541>>, <<1552, 1562>>, <<1564, 1564>>, <<1600, 1600>>,
      <<1611, 1631>>, <<1648, 1648>>, <<1750, 1757>>, <<1759, 1768>>,
      <<1770, 1773>>, <<1807, 1807>>, <<1809, 1809>>, <<1840, 1866>>,
      <<1958, 1968>>, <<2027, 2037>>, <<2042, 2042>>, <<2045, 2045>>,
      <<2070, 2093>>, <<2137, 2139>>, <<2184, 2184>>, <<2192, 2193>>,
      <<2199, 2207>>, <<2249, 2306>>, <<2362, 2362>>, <<2364, 2364>>,
      <<2369, 2376>>, <<2381, 2381>>, <<2385, 2391>>, <<2402, 2403>>,
      <<2417, 2417>>, <<2433, 2433>>, <<2492, 2492>>, <<2497, 2500>>,
      <<2509, 2509>>, <<2530, 2531>>, <<2558, 2558>>, <<2561, 2562>>,
      <<2620, 2620>>, <<2625, 2626>>, <<2631, 2632>>, <<2635, 2637>>,
      <<2641, 2641>>, <<2672, 2673>>, <<2677, 2677>>, <<2689, 2690>>,
      <<2748, 2748>>, <<2753, 2757>>, <<2759, 2760>>, <<2765, 2765>>,
      <<2786, 2787>>, <<2810, 2815>>, <<2817, 2817>>, <<2876, 2876>>,
      <<2879, 2879>>, <<2881, 2884>>, <<2893, 2893>>, <<2901, 2902>>,
      <<2914, 2915>>, <<2946, 2946>>, <<3008, 3008>>, <<3021, 3021>>,
      <<3072, 3072>>, <<3076, 3076>>, <<3132, 3132>>, <<3134, 3136>>,
      <<3142, 3144>>, <<3146, 3149>>, <<3157, 3158>>, <<3170, 3171>>,
      <<3201, 3201>>, <<3260, 3260>>, <<3263, 3263>>, <<3270, 3270>>,
      <<3276, 3277>>, <<3298, 3299>>, <<3328, 3329>>, <<3387, 3388>>,
      <<3393, 3396>>, <<3405, 3405>>, <<3426, 3427>>, <<3457, 3457>>,
      <<3530, 3530>>, <<3538, 3540>>, <<3542, 3542>>, <<3633, 3633>>,
      <<3636, 3642>>, <<3654, 3662>>, <<3761, 3761>>, <<3764, 3772>>,
      <<3782, 3782>>, <<3784, 3790>>, <<3864, 3865>>, <<3893, 3893>>,
      <<3895, 3895>>, <<3897, 3897>>, <<3953, 3966>>, <<3968, 3972>>,
      <<3974, 3975>>, <<3981, 3991>>, <<3993, 4028>>, <<4038, 4038>>,
      <<4141, 4144>>, <<4146, 4151>>, <<4153, 4154>>, <<4157, 4158>>,
      <<4184, 4185>>, <<4190, 4192>>, <<4209, 4212>>, <<4226, 4226>>,
      <<4229, 4230>>, <<4237, 4237>>, <<4253, 4253>>, <<4348, 4348>>,
      <<4957, 4959>>, <<5906, 5908>>, <<5938, 5939>>, <<5970, 5971>>,
      <<6002, 6003>>, <<6068, 6069>>, <<6071, 6077>>, <<6086, 6086>>,
      <<6089, 6099>>, <<6103, 6103>>, <<6109, 6109>>, <<6155, 6159>>,
      <<6211, 6211>>, <<6277, 6278>>, <<6313, 6313>>, <<6432, 6434>>,
      <<6439, 6440>>, <<6450, 6450>>, <<6457, 6459>>, <<6679, 6680>>,
      <<6683, 6683>>, <<6742, 6742>>, <<6744, 6750>>, <<6752, 6752>>,
      <<6754, 6754>>, <<6757, 6764>>, <<6771, 6780>>, <<6783, 6783>>,
      <<6823, 6823>>, <<6832, 6877>>, <<6880, 6891>>, <<6912, 6915>>,
      <<6964, 6964>>, <<6966, 6970>>, <<6972, 6972>>, <<6978, 6978>>,
      <<7019, 7027>>, <<7040, 7041>>, <<7074, 7077>>, <<7080, 7081>>,
      <<7083, 7085>>, <<7142, 7142>>, <<7144, 7145>>, <<7149, 7149>>,
      <<7151, 7153>>, <<7212, 7219>>, <<7222, 7223>>, <<7288, 7293>>,
      <<7376, 7378>>, <<7380, 7392>>, <<7394, 7400>>, <<7405, 7405>>,
      <<7412, 7412>>, <<7416, 7417>>, <<7468, 7530>>, <<7544, 7544>>,
      <<7579, 7679>>, <<8125, 8125>>, <<8127, 8129>>, <<8141, 8143>>,
      <<8157, 8159>>, <<8173, 8175>>, <<8189, 8190>>, <<8203, 8207>>,
      <<8216, 8217>>, <<8228, 8228>>, <<8231, 8231>>, <<8234, 8238>>,
      <<8288, 8292>>, <<8294, 8303>>, <<8305, 8305>>, <<8319, 8319>>,
      <<8336, 8348>>, <<8400, 8432>>, <<11388, 11389>>, <<11503, 11505>>,
      <<11631, 11631>>, <<11647, 11647>>, <<11744, 11775>>, <<11823, 11823>>,
      <<12293, 12293>>, <<12330, 12333>>, <<12337, 12341>>, <<12347, 12347>>,
      <<12441, 12446>>, <<12540, 12542>>, <<40981, 40981>>, <<42232, 42237>>,
      <<42508, 42508>>, <<42607, 42610>>, <<42612, 42621>>, <<42623, 42623>>,
      <<42652, 42655>>, <<42736, 42737>>, <<42752, 42785>>, <<42864, 42864>>,
      <<42888, 42890>>, <<42993, 42996>>, <<43000, 43001>>, <<43010, 43010>>,
      <<43014, 43014>>, <<43019, 43019>>, <<43045, 43046>>, <<43052, 43052>>,
      <<43204, 43205>>, <<43232, 43249>>, <<43263, 43263>>, <<43302, 43309>>,
      <<43335, 43345>>, <<43392, 43394>>, <<43443, 43443>>, <<43446, 43449>>,
      <<43452, 43453>>, <<43471, 43471>>, <<43493, 43494>>, <<43561, 43566>>,
      <<43569, 43570>>, <<43573, 43574>>, <<43587, 43587>>, <<43596, 43596>>,
      <<43632, 43632>>, <<43644, 43644>>, <<43696, 43696>>, <<43698, 43700>>,
      <<43703, 43704>>, <<43710, 43711>>, <<43713, 43713>>, <<43741, 43741>>,
      <<43756, 43757>>, <<43763, 43764>>, <<43766, 43766>>, <<43867, 43871>>,
      <<43881, 43883>>, <<44005, 44005>>, <<44008, 44008>>, <<44013, 44013>>,
      <<64286, 64286>>, <<64434, 64450>>, <<65024, 65039>>, <<65043, 65043>>,
      <<65056, 65071>>, <<65106, 65106>>, <<65109, 65109>>, <<65279, 65279>>,
      <<65287, 65287>>, <<65294, 65294>>, <<65306, 65306>>, <<65342, 65342>>,
      <<65344, 65344>>, <<65392, 65392>>, <<65438, 65439>>, <<65507, 65507>>,
      <<65529, 65531>>, <<66045, 66045>>, <<66272, 66272>>, <<66422, 66426>>,
      <<67456, 67461>>, <<67463, 67504>>, <<67506, 67514>>, <<68097, 68099>>,
      <<68101, 68102>>, <<68108, 68111>>, <<68152, 68154>>, <<68159, 68159>>,
      <<68325, 68326>>, <<68900, 68903>>, <<68942, 68942>>, <<68969, 68973>>,
      <<68975, 68975>>, <<69291, 69292>>, <<69317, 69317>>, <<69370, 69375>>,
      <<69446, 69456>>, <<69506, 69509>>, <<69633, 69633>>, <<69688, 69702>>,
      <<69744, 69744>>, <<69747, 69748>>, <<69759, 69761>>, <<69811, 69814>>,
      <<69817, 69818>>, <<69821, 69821>>, <<69826, 69826>>, <<69837, 69837>>,
      <<69888, 69890>>, <<69927, 69931>>, <<69933, 69940>>, <<70003, 70003>>,
      <<70016, 70017>>, <<70070, 70078>>, <<70089, 70092>>, <<70095, 70095>>,
      <<70191, 70193>>, <<70196, 70196>>, <<70198, 70199>>, <<70206, 70206>>,
      <<70209, 70209>>, <<70367, 70367>>, <<70371, 70378>>, <<70400, 70401>>,
      <<70459, 70460>>, <<70464, 70464>>, <<70502, 70508>>, <<70512, 70516>>,
      <<70587, 70592>>, <<70606, 70606>>, <<70608, 70608>>, <<70610, 70610>>,
      <<70625, 70626>>, <<70712, 70719>>, <<70722, 70724>>, <<70726, 70726>>,
      <<70750, 70750>>, <<70835, 70840>>, <<70842, 70842>>, <<70847, 70848>>,
      <<70850, 70851>>, <<71090, 71093>>, <<71100, 71101>>, <<71103, 71104>>,
      <<71132, 71133>>, <<71219, 71226>>, <<71229, 71229>>, <<71231, 71232>>,
      <<71339, 71339>>, <<71341, 71341>>, <<71344, 71349>>, <<71351, 71351>>,
      <<71453, 71453>>, <<71455, 71455>>, <<71458, 71461>>, <<71463, 71467>>,
      <<71727, 71735>>, <<71737, 71738>>, <<71995, 71996>>, <<71998, 71998>>,
      <<72003, 72003>>, <<72148, 72151>>, <<72154, 72155>>, <<72160, 72160>>,
      <<72193, 72202>>, <<72243, 72248>>, <<72251, 72254>>, <<72263, 72263>>,
      <<72273, 72278>>, <<72281, 72283>>, <<72330, 72342>>, <<72344, 72345>>,
      <<72544, 72544>>, <<72546, 72548>>, <<72550, 72550>>, <<72752, 72758>>,
      <<72760, 72765>>, <<72767, 72767>>, <<72850, 72871>>, <<72874, 72880>>,
      <<72882, 72883>>, <<72885, 72886>>, <<73009, 73014>>, <<73018, 73018>>,
      <<73020, 73021>>, <<73023, 73029>>, <<73031, 73031>>, <<73104, 73105>>,
      <<73109, 73109>>, <<73111, 73111>>, <<73177, 73177>>, <<73459, 73460>>,
      <<73472, 73473>>, <<73526, 73530>>, <<73536, 73536>>, <<73538, 73538>>,
      <<73562, 73562>>, <<78896, 78912>>, <<78919, 78933>>, <<90398, 90409>>,
      <<90413, 90415>>, <<92912, 92916>>, <<92976, 92982>>, <<92992, 92995>>,
      <<93504, 93506>>, <<93547, 93548>>, <<94031, 94031>>, <<94095, 94111>>,
      <<94176, 94177>>, <<94179, 94180>>, <<94194, 94195>>,
      <<110576, 110579>>, <<110581, 110587>>, <<110589, 110590>>,
      <<113821, 113822>>, <<113824, 113827>>, <<118528, 118573>>,
      <<118576, 118598>>, <<119143, 119145>>, <<119155, 119170>>,
      <<119173, 119179>>, <<119210, 119213>>, <<119362, 119364>>,
      <<121344, 121398>>, <<121403, 121452>>, <<121461, 121461>>,
      <<121476, 121476>>, <<121499, 121503>>, <<121505, 121519>>,
      <<122880, 122886>>, <<122888, 122904>>, <<122907, 122913>>,
      <<122915, 122916>>, <<122918, 122922>>, <<122928, 122989>>,
      <<123023, 123023>>, <<123184, 123197>>, <<123566, 123566>>,
      <<123628, 123631>>, <<124139, 124143>>, <<124398, 124399>>,
      <<124643, 124643>>, <<124646, 124646>>, <<124654, 124655>>,
      <<124661, 124661>>, <<124671, 124671>>, <<125136, 125142>>,
      <<125252, 125259>>, <<127995, 127999>>, <<917505, 917505>>,
      <<917536, 917631>>, <<917760, 917999>>>>

InRanges(cp, ranges) ==
    \E i \in DOMAIN ranges : ranges[i][1] <= cp /\ cp <= ranges[i][2]

IsHighSurrogate(u) == u \in 55296..56319
IsLowSurrogate(u) == u \in 56320..57343

\* The code points of a string: a high surrogate followed by a low one is
\* one code point, every other code unit is a code point by itself.  A code
\* point starts at every unit but a low surrogate that follows a high one.
CodePoints(units) ==
    LET starts == {i \in DOMAIN units :
                      ~(/\ i > 1
                        /\ IsLowSurrogate(units[i])
                        /\ IsHighSurrogate(units[i - 1]))}
        nth(k) == CHOOSE i \in starts : Cardinality({j \in starts : j <= i}) = k
    IN  [k \in 1..Cardinality(starts) |->
            LET i == nth(k) IN
            IF /\ i < Len(units)
               /\ IsHighSurrogate(units[i])
               /\ IsLowSurrogate(units[i + 1])
            THEN 65536 + (units[i] - 55296) * 1024 + (units[i + 1] - 56320)
            ELSE units[i]]

CodeUnits(cp) ==
    IF cp < 65536 THEN <<cp>>
    ELSE <<55296 + ((cp - 65536) \div 1024), 56320 + ((cp - 65536) % 1024)>>

RECURSIVE Flatten(_)
Flatten(seqs) ==
    IF seqs = <<>> THEN <<>>
    ELSE IF Len(seqs) = 1 THEN seqs[1]
    ELSE Flatten(FirstHalf(seqs)) \o Flatten(SecondHalf(seqs))

\* The lower-case counterpart of one code point.
LowerChar(cp) ==
    LET Maps(r) == r[1] <= cp /\ cp <= r[2] /\ (cp - r[1]) % r[3] = 0
        Lowered(ranges) ==
            IF \E i \in DOMAIN ranges : Maps(ranges[i])
            THEN cp + ranges[CHOOSE i \in DOMAIN ranges : Maps(ranges[i])][4]
            ELSE cp
    IN  Lowered(LowerRanges)

\* A capital sigma is final when a cased letter precedes it and none follows
\* it, case-ignorable code points in between not counting.
CasedBefore(cps, i, ignorable, cased) ==
    \E j \in 1..i :
        /\ ~InRanges(cps[j], ignorable)
        /\ InRanges(cps[j], cased)
        /\ \A k \in (j + 1)..i : InRanges(cps[k], ignorable)
CasedAfter(cps, i, ignorable, cased) ==
    \E j \in i..Len(cps) :
        /\ ~InRanges(cps[j], ignorable)
        /\ InRanges(cps[j], cased)
        /\ \A k \in i..(j - 1) : InRanges(cps[k], ignorable)
FinalSigma(cps, i) ==
    LET Final(ignorable, cased) ==
            /\ CasedBefore(cps, i - 1, ignorable, cased)
            /\ ~CasedAfter(cps, i + 1, ignorable, cased)
    IN  Final(CaseIgnorableRanges, CasedRanges)

\* Mutant: the name is used as typed.
toLowerCase_Identity(units) == units

toLowerCase(units) ==
    LET Lowered(cps) ==
            Flatten([i \in DOMAIN cps |->
                        IF cps[i] = 931
                        THEN (IF FinalSigma(cps, i) THEN <<962>> ELSE <<963>>)
                        ELSE IF cps[i] = 304 THEN <<105, 775>>
                        ELSE CodeUnits(LowerChar(cps[i]))])
    IN  Lowered(CodePoints(units))

\* An integer as text, for the messages the server builds.
DigitChars == <<"0", "1", "2", "3", "4", "5", "6", "7", "8", "9">>
RECURSIVE NatToStr(_)
NatToStr(n) == IF n < 10 THEN DigitChars[n + 1]
               ELSE NatToStr(n \div 10) \o DigitChars[(n % 10) + 1]
IntToStr(n) == IF n < 0 THEN "-" \o NatToStr(-n) ELSE NatToStr(n)
----------------------------------------------------------------------------
(* JavaScript numbers, as far as parseInt, ||, Math.min and a template     *)
(* literal need them: NaN, the infinities, and the integers, which are     *)
(* held as a sign and the decimal digits of the magnitude (most            *)
(* significant first, no leading zero, <<>> for zero) so that values       *)
(* beyond 2^53 are rounded and printed as a double is.  The arithmetic on  *)
(* digits works on the two halves of a sequence in turn.                   *)

NaN == [t |-> "number", kind |-> "nan"]
Infinity(neg) == [t |-> "number", kind |-> "infinity", neg |-> neg]
Num(neg, digits) == [t |-> "number", kind |-> "int", neg |-> neg, digits |-> digits]

Norm(d) ==
    IF \A i \in DOMAIN d : d[i] = 0 THEN <<>>
    ELSE LET k == CHOOSE k \in DOMAIN d : d[k] # 0 /\ \A j \in 1..(k - 1) : d[j] = 0
         IN  SubSeq(d, k, Len(d))

RECURSIVE NatDigits(_)
NatDigits(n) == IF n = 0 THEN <<>> ELSE NatDigits(n \div 10) \o <<n % 10>>

FromInt(n) == Num(n < 0, NatDigits(IF n < 0 THEN -n ELSE n))

Front(d) == SubSeq(d, 1, Len(d) - 1)
Final(d) == d[Len(d)]
Zeros(n) == [i \in 1..n |-> 0]
Pad(d, n) == Zeros(n - Len(d)) \o d

Reverse(d) == [i \in 1..Len(d) |-> d[Len(d) + 1 - i]]

\* d * m + carry, for a small m and carry < m.  The digits are taken least
\* significant first, the way the carry runs.
RECURSIVE MulAddRaw(_, _, _)
MulAddRaw(d, m, carry) ==
    IF d = <<>> THEN [s |-> <<>>, c |-> carry]
    ELSE IF Len(d) = 1
    THEN LET x == d[1] * m + carry IN [s |-> <<x % 10>>, c |-> x \div 10]
    ELSE LET lo == MulAddRaw(FirstHalf(d), m, carry)
             hi == MulAddRaw(SecondHalf(d), m, lo.c)
         IN  [s |-> lo.s \o hi.s, c |-> hi.c]
MulAdd(d, m, carry) ==
    LET Digits10(r) == NatDigits(r.c) \o Reverse(r.s)
    IN  Digits10(MulAddRaw(Reverse(d), m, carry))

\* a + b + carry and a - b - borrow (for a >= b), for equally long a and b,
\* likewise.
RECURSIVE AddRaw(_, _, _)
AddRaw(a, b, carry) ==
    IF a = <<>> THEN [s |-> <<>>, c |-> carry]
    ELSE IF Len(a) = 1
    THEN LET x == a[1] + b[1] + carry IN [s |-> <<x % 10>>, c |-> x \div 10]
    ELSE LET lo == AddRaw(FirstHalf(a), FirstHalf(b), carry)
             hi == AddRaw(SecondHalf(a), SecondHalf(b), lo.c)
         IN  [s |-> lo.s \o hi.s, c |-> hi.c]
Add(a, b) ==
    LET Digits10(r) == Norm(NatDigits(r.c) \o Reverse(r.s))
        Padded(n) == Digits10(AddRaw(Reverse(Pad(a, n)), Reverse(Pad(b, n)), 0))
    IN  Padded(IF Len(a) > Len(b) THEN Len(a) ELSE Len(b))
RECURSIVE SubRaw(_, _, _)
SubRaw(a, b, borrow) ==
    IF a = <<>> THEN [s |-> <<>>, c |-> borrow]
    ELSE IF Len(a) = 1
    THEN LET x == a[1] - b[1] - borrow
         IN  [s |-> <<IF x < 0 THEN x + 10 ELSE x>>, c |-> IF x < 0 THEN 1 ELSE 0]
    ELSE LET lo == SubRaw(FirstHalf(a), FirstHalf(b), borrow)
             hi == SubRaw(SecondHalf(a), SecondHalf(b), lo.c)
         IN  [s |-> lo.s \o hi.s, c |-> hi.c]
Sub(a, b) == Norm(Reverse(SubRaw(Reverse(a), Reverse(Pad(b, Len(a))), 0).s))

\* -1, 0 or 1 as a < b, a = b or a > b.
Cmp(a, b) ==
    IF Len(a) < Len(b) THEN -1
    ELSE IF Len(a) > Len(b) THEN 1
    ELSE IF a = b THEN 0
    ELSE LET k == CHOOSE k \in DOMAIN a :
                     a[k] # b[k] /\ \A j \in 1..(k - 1) : a[j] = b[j]
         IN  IF a[k] < b[k] THEN -1 ELSE 1

\* d div m and d mod m, for a small m.
RECURSIVE DivRaw(_, _, _)
DivRaw(d, m, rem) ==
    IF d = <<>> THEN [q |-> <<>>, r |-> rem]
    ELSE IF Len(d) = 1
    THEN LET x == rem * 10 + d[1] IN [q |-> <<x \div m>>, r |-> x % m]
    ELSE LET hi == DivRaw(FirstHalf(d), m, rem)
             lo == DivRaw(SecondHalf(d), m, hi.r)
         IN  [q |-> hi.q \o lo.q, r |-> lo.r]
Div(d, m) ==
    LET Result(h) == [q |-> Norm(h.q), r |-> h.r] IN Result(DivRaw(d, m, 0))

\* d * 2^e: at most 24 doublings are one multiplication, more are made in
\* two parts.
RECURSIVE TimesPow2(_, _)
TimesPow2(d, e) ==
    IF e <= 24 THEN MulAdd(d, 2^e, 0)
    ELSE TimesPow2(TimesPow2(d, e \div 2), e - (e \div 2))

\* d div 2^e and whether d mod 2^e is not zero, likewise.
RECURSIVE OverPow2(_, _)
OverPow2(d, e) ==
    LET Small(h) == [q |-> h.q, rest |-> h.r # 0]
        Both(a, b) == [q |-> b.q, rest |-> a.rest \/ b.rest]
        Second(a) == Both(a, OverPow2(a.q, e - (e \div 2)))
    IN  IF e <= 24 THEN Small(Div(d, 2^e)) ELSE Second(OverPow2(d, e \div 2))

TwoTo52 == <<4, 5, 0, 3, 5, 9, 9, 6, 2, 7, 3, 7, 0, 4, 9, 6>>
TwoTo53 == <<9, 0, 0, 7, 1, 9, 9, 2, 5, 4, 7, 4, 0, 9, 9, 2>>

\* The number of halvings that bring an integer from 2^53 on below 2^53:
\* the e with 2^(52+e) <= d < 2^(53+e), found by halving the range it
\* lies in.  An integer of n digits is below 2^(4n).
RECURSIVE Halvings(_, _, _)
Halvings(d, least, most) ==
    IF least = most THEN least
    ELSE LET Half(mid) ==
                 IF Cmp(d, TimesPow2(TwoTo53, mid)) < 0 THEN Halvings(d, least, mid)
                 ELSE Halvings(d, mid + 1, most)
         IN  Half((least + most) \div 2)

\* The halvings that bring an integer below 2^53: the quotient, their
\* number, the bit shifted out last and whether any bit before it was set.
Shifted(d) ==
    IF Cmp(d, TwoTo53) < 0 THEN [q |-> d, e |-> 0, guard |-> 0, sticky |-> 0]
    ELSE LET Last(e, before, final) ==
                 [q |-> final.q, e |-> e, guard |-> final.r,
                  sticky |-> IF before.rest THEN 1 ELSE 0]
             Before(e, before) == Last(e, before, Div(before.q, 2))
             By(e) == Before(e, OverPow2(d, e - 1))
         IN  By(Halvings(d, 1, 4 * Len(d)))

\* The double nearest to an integer, ties to the even significand: the
\* significand m (below 2^53), the exponent e and the value m * 2^e; the
\* magnitudes from 2^1024 - 2^970 on round to infinity.
ToDouble(d) ==
    LET Double(m, e) ==
            [inf |-> e > 971, m |-> m, e |-> e,
             v |-> IF e > 971 THEN <<>> ELSE TimesPow2(m, e)]
        Carried(m0, e) ==
            IF m0 = TwoTo53 THEN Double(TwoTo52, e + 1) ELSE Double(m0, e)
        Up(s) == s.guard = 1 /\ (s.sticky = 1 \/ Final(<<0>> \o s.q) % 2 = 1)
        Nearest(s) == Carried(IF Up(s) THEN Add(s.q, <<1>>) ELSE s.q, s.e)
    IN  Nearest(Shifted(d))

\* The shortest decimal that reads back as the double m * 2^e (e >= 1): the
\* first number of k significant digits within half a gap of it, the gap
\* below a power of two being half the gap above; of two such numbers the
\* nearer one.
RECURSIVE ShortestFrom(_, _, _, _, _)
ShortestFrom(v, k, lowest, highest, even) ==
    IF k >= Len(v) THEN v
    ELSE LET Inside(lo, hi) ==
                 IF even THEN lo >= 0 /\ hi <= 0 ELSE lo > 0 /\ hi < 0
             Twice(twice) == Inside(Cmp(twice, lowest), Cmp(twice, highest))
             within(x) == Twice(MulAdd(x, 2, 0))
             Pick(below, above, nearer, belowIn, aboveIn) ==
                 IF belowIn /\ aboveIn
                 THEN (IF nearer < 0 THEN below
                       ELSE IF nearer > 0 THEN above
                       ELSE IF v[k] % 2 = 0 THEN below ELSE above)
                 ELSE IF belowIn THEN below
                 ELSE IF aboveIn THEN above
                 ELSE ShortestFrom(v, k + 1, lowest, highest, even)
             Between(below, above) ==
                 Pick(below, above, Cmp(Sub(v, below), Sub(above, v)),
                      within(below), within(above))
             From(below) == Between(below, Add(below, <<1>> \o Zeros(Len(v) - k)))
         IN  From(SubSeq(v, 1, k) \o Zeros(Len(v) - k))

Shortest(dbl) ==
    IF dbl.e = 0 THEN dbl.v
    ELSE LET Gaps(twice, gapDown, gapUp) ==
                 ShortestFrom(dbl.v, 1, Sub(twice, gapDown), Add(twice, gapUp),
                              Final(dbl.m) % 2 = 0)
             Gap(e) == TimesPow2(<<1>>, e)
         IN  Gaps(MulAdd(dbl.v, 2, 0),
                  Gap(IF dbl.m = TwoTo52 THEN dbl.e - 1 ELSE dbl.e), Gap(dbl.e))

StripZeros(d) ==
    IF \A i \in DOMAIN d : d[i] = 0 THEN <<>>
    ELSE LET k == CHOOSE k \in DOMAIN d :
                     d[k] # 0 /\ \A j \in (k + 1)..Len(d) : d[j] = 0
         IN  SubSeq(d, 1, k)

DigitUnits(d) == [i \in DOMAIN d |-> 48 + d[i]]

\* Number::toString of the double with magnitude digits d: the digits up to
\* 21 of them, beyond that the exponent notation d.ddde+n.
MagnitudeText(d) ==
    IF d = <<>> THEN <<48>>
    ELSE IF Len(d) <= 21 THEN DigitUnits(d)
    ELSE LET Exponential(s) ==
                 <<48 + s[1]>>
                 \o (IF Len(s) > 1 THEN <<46>> \o DigitUnits(Tail(s)) ELSE <<>>)
                 \o <<101, 43>> \o DigitUnits(NatDigits(Len(d) - 1))
         IN  Exponential(StripZeros(d))

\* The double nearest to the integer with the given sign and digits.
Rounded(neg, digits) ==
    LET Signed(dbl) == IF dbl.inf THEN Infinity(neg) ELSE Num(neg, dbl.v)
    IN  Signed(ToDouble(Norm(digits)))

\* A number as a template literal prints it.
NumText(x) ==
    CASE x.kind = "nan" -> <<78, 97, 78>>
      [] x.kind = "infinity" ->
            (IF x.neg THEN <<45>> ELSE <<>>) \o <<73, 110, 102, 105, 110, 105, 116, 121>>
      [] x.kind = "int" ->
            (IF x.neg /\ x.digits # <<>> THEN <<45>> ELSE <<>>)
            \o MagnitudeText(Shortest(ToDouble(x.digits)))

----------------------------------------------------------------------------
(* The values of a query parameter: absent, a string, an array of strings  *)
(* (a parameter given more than once) or an object (a parameter written    *)
(* name[key]=value), whose fields are a record of such values.             *)

QArray(items) == [t |-> "qarray", items |-> items]
QObject(fields) == [t |-> "qobject", fields |-> fields]

\* Whether the conversion of v to a primitive throws: an object whose own
\* toString is a query value has no callable toString, and the valueOf it
\* inherits (or the value it has in its place) gives no primitive either.
Throws(v) == v.t = "qobject" /\ "toString" \in DOMAIN v.fields
CannotConvert == "Cannot convert object to primitive value"

RECURSIVE JoinWith(_, _)
JoinWith(items, sep) ==
    IF items = <<>> THEN <<>>
    ELSE IF Len(items) = 1 THEN items[1]
    ELSE JoinWith(FirstHalf(items), sep) \o sep \o JoinWith(SecondHalf(items), sep)

\* ToString(v), as parseInt and a template literal apply it, for a v whose
\* conversion does not throw.
StringOf(v) ==
    CASE v.t = "string" -> v.s
      [] v.t = "number" -> NumText(v)
      [] v.t = "qarray" -> JoinWith(v.items, <<44>>)
      [] v.t = "qobject" -> Utf16(<<"[", "o", "b", "j", "e", "c", "t", " ",
                                   "O", "b", "j", "e", "c", "t", "]">>)
      [] v.t = "undefined" -> Utf16(<<"u", "n", "d", "e", "f", "i", "n", "e", "d">>)
      [] v.t = "null" -> Utf16(<<"n", "u", "l", "l">>)

\* !v
Falsy(v) ==
    \/ v.t \in {"undefined", "null"}
    \/ IsStr(v) /\ v.s = <<>>
    \/ v.t = "number" /\ (v.kind = "nan" \/ (v.kind = "int" /\ v.digits = <<>>))

\* /^[a-zA-Z0-9_-]+$/
UsernameChars == UpperLetters \cup LowerLetters \cup Digits \cup {95, 45}

\* Mutant: the lower bound on the length is not checked.
validateUsername_NoMinLength(username) ==
    IF Falsy(username) \/ ~IsStr(username) THEN FALSE
    ELSE /\ Len(username.s) <= 20
         /\ username.s # <<>>
         /\ \A i \in 1..Len(username.s) : username.s[i] \in UsernameChars

validateUsername(username) ==
    IF Falsy(username) \/ ~IsStr(username) THEN FALSE
    ELSE /\ Len(username.s) >= 3
         /\ Len(username.s) <= 20
         /\ \A i \in 1..Len(username.s) : username.s[i] \in UsernameChars

----------------------------------------------------------------------------
(* Requests.  arg is the username, playerId, query, itemId, limit or cache *)
(* key of the route (the path for a request no route matches); arg2 is     *)
(* ?days= of the history route; adminKey is the x-admin-key header; body   *)
(* tells whether the request carries a JSON body that does not parse, and  *)
(* the message of the error JSON.parse raises for it.                      *)

NoBody == [t |-> "none"]
MalformedBody(message) == [t |-> "malformed", message |-> message]

MethodOf(route) ==
    IF route \in {"admin_clear", "admin_clear_key"} THEN "POST" ELSE "GET"

Req(route, arg, arg2, adminKey) ==
    [route |-> route, arg |-> arg, arg2 |-> arg2, adminKey |-> adminKey,
     method |-> MethodOf(route), body |-> NoBody]

CachedRoutes ==
    {"player_search", "player_profile", "ban_check", "ban_stats",
     "market_search", "market_item", "market_trending", "market_history"}
SoftRoutes == {"ban_check", "ban_stats", "market_history"}
HardRoutes == CachedRoutes \ SoftRoutes
ListRoutes == {"market_search", "market_trending"}

\* parseInt(v) with no radix: the string of v, the white space skipped, a sign, a
\* 0x or 0X prefix (which makes the radix 16), then the longest run of
\* digits of the radix; NaN when that run is empty.
WhiteSpace ==
    {9, 10, 11, 12, 13, 32, 160, 5760, 8232, 8233, 8239, 8287, 12288, 65279}
    \cup 8192..8202

\* The part of a string that satisfies P up to its first unit that does not,
\* and the part from that unit on.
LeadingCount(units, P(_)) ==
    IF \A i \in DOMAIN units : P(units[i]) THEN Len(units)
    ELSE (CHOOSE k \in DOMAIN units :
              ~P(units[k]) /\ \A j \in 1..(k - 1) : P(units[j])) - 1

SkipBlanks(units) ==
    LET blank(u) == u \in WhiteSpace
    IN  SubSeq(units, LeadingCount(units, blank) + 1, Len(units))

IsDigit(u, radix) ==
    \/ u \in Digits
    \/ radix = 16 /\ (u \in 97..102 \/ u \in 65..70)

DigitValue(u) ==
    IF u \in Digits THEN u - 48
    ELSE IF u \in 97..102 THEN u - 87
    ELSE u - 55

\* The longest run of digits of the radix at the head of a string, as the
\* values of the digits.
DigitRun(units, radix) ==
    LET digit(u) == IsDigit(u, radix)
    IN  [i \in 1..LeadingCount(units, digit) |-> DigitValue(units[i])]

\* The value of up to six hexadecimal digits.
RECURSIVE SmallValue(_)
SmallValue(run) ==
    IF run = <<>> THEN 0 ELSE SmallValue(Front(run)) * 16 + Final(run)

\* The value of a run of digits of the radix: a decimal run is its own
\* value, a hexadecimal one of more than six digits is the value of its
\* first half, moved four bits for every digit of the second, plus the
\* value of the second.
RECURSIVE ValueOf(_, _)
ValueOf(run, radix) ==
    IF radix = 10 THEN Norm(run)
    ELSE IF Len(run) <= 6 THEN NatDigits(SmallValue(run))
    ELSE Add(TimesPow2(ValueOf(FirstHalf(run), radix), 4 * Len(SecondHalf(run))),
             ValueOf(SecondHalf(run), radix))

parseInt(v) ==
    LET Value(neg, run, radix) ==
            IF run = <<>> THEN NaN ELSE Rounded(neg, ValueOf(run, radix))
        InRadix(neg, rest, radix) == Value(neg, DigitRun(rest, radix), radix)
        Unsigned(neg, rest) ==
            IF Len(rest) >= 2 /\ rest[1] = 48 /\ rest[2] \in {120, 88}
            THEN InRadix(neg, Tail(Tail(rest)), 16)
            ELSE InRadix(neg, rest, 10)
        Signed(body) ==
            Unsigned(body # <<>> /\ Head(body) = 45,
                     IF body # <<>> /\ Head(body) \in {45, 43} THEN Tail(body) ELSE body)
    IN  Signed(SkipBlanks(StringOf(v)))

\* Math.min(a, b) for b a small positive integer.
MathMin(a, b) ==
    CASE a.kind = "nan" -> NaN
      [] a.kind = "infinity" -> IF a.neg THEN a ELSE b
      [] a.kind = "int" ->
            IF a.neg \/ Cmp(a.digits, b.digits) < 0 THEN a ELSE b

\* const { limit = 20 } = req.query; Math.min(parseInt(limit) || 20, 100)
limitNum(limit) ==
    LET OrDefault(p) == MathMin(IF Falsy(p) THEN FromInt(20) ELSE p, FromInt(100))
    IN  OrDefault(parseInt(IF limit = Undefined THEN FromInt(20) ELSE limit))

\* const { days = 30 } = req.query, as the template literal prints it.
daysText(days) == StringOf(IF days = Undefined THEN FromInt(30) ELSE days)

\* query.length: a number for a string and for an array, the field of that
\* name for an object, undefined for an object without it.
LengthOf(query) ==
    CASE IsStr(query) -> [t |-> "number", n |-> Len(query.s)]
      [] query.t = "qarray" -> [t |-> "number", n |-> Len(query.items)]
      [] query.t = "qobject" /\ "length" \in DOMAIN query.fields ->
            [t |-> "value", v |-> query.fields.length]
      [] OTHER -> [t |-> "undefined"]

\* The digits after the point of 2 - 2^-53, the number halfway between 2
\* and the double below it.
BelowTwoLimit ==
    <<9, 9, 9, 9, 9, 9, 9, 9, 9, 9, 9, 9, 9, 9, 9, 8, 8, 8, 9, 7, 7, 6, 9, 7,
      5, 3, 7, 4, 8, 4, 3, 4, 5, 9, 5, 7, 6, 3, 6, 8, 3, 3, 1, 9, 0, 9, 1, 7,
      9, 6, 8, 7, 5>>

\* x < 2 for a string x: the number StringToNumber reads is compared.  The
\* white space at both ends is dropped; the empty string is 0; 0x, 0o and
\* 0b introduce an unsigned integer of that radix; otherwise the string is
\* a signed decimal with an optional fraction and exponent, or Infinity;
\* anything else is NaN, which is below nothing.  A decimal 1.f is rounded
\* to the nearest double, and so is below 2 when it is below 2 - 2^-53.
LessThanTwo(units) ==
    LET digit(u) == u \in Digits
        Values(s) == [i \in DOMAIN s |-> s[i] - 48]
        From(s, n) == SubSeq(s, n + 1, Len(s))
        Small(p) ==
            p[1] * 100000 + p[2] * 10000 + p[3] * 1000 + p[4] * 100 + p[5] * 10 + p[6]
        Exponent(neg, d) ==
            IF Len(d) > 6 THEN (IF neg THEN -1000000 ELSE 1000000)
            ELSE IF neg THEN -Small(Pad(d, 6)) ELSE Small(Pad(d, 6))
        Padded(f, n) ==
            Cmp(f \o Zeros(n - Len(f)), BelowTwoLimit \o Zeros(n - Len(BelowTwoLimit))) < 0
        Rounded1(f) ==
            Padded(f, IF Len(f) > Len(BelowTwoLimit) THEN Len(f) ELSE Len(BelowTwoLimit))
        \* 0.ds * 10^p, ds without leading zeros
        Scaled(ds, p) ==
            ds = <<>> \/ p <= 0 \/ (p = 1 /\ ds[1] = 1 /\ Rounded1(Tail(ds)))
        Magnitude(ds, fracLen, e) == Scaled(ds, Len(ds) - fracLen + e)
        \* the exponent part s, read after a mantissa
        Power(neg, d, int, frac) ==
            /\ d # <<>>
            /\ \A i \in DOMAIN d : digit(d[i])
            /\ Magnitude(Norm(Values(int \o frac)), Len(frac),
                         Exponent(neg, Norm(Values(d))))
        Tailed(s, int, frac) ==
            IF s = <<>> THEN Magnitude(Norm(Values(int \o frac)), Len(frac), 0)
            ELSE IF s[1] \notin {101, 69} THEN FALSE
            ELSE IF Len(s) >= 2 /\ s[2] \in {43, 45}
            THEN Power(s[2] = 45, From(s, 2), int, frac)
            ELSE Power(FALSE, From(s, 1), int, frac)
        Syntax(s, int, frac) ==
            (int # <<>> \/ frac # <<>>)
            /\ (s = <<>>
                \/ (/\ s[1] \in {101, 69}
                    /\ LET d == IF Len(s) >= 2 /\ s[2] \in {43, 45}
                                THEN From(s, 2) ELSE From(s, 1)
                       IN  d # <<>> /\ \A i \in DOMAIN d : digit(d[i])))
        Fraction(neg, int, s, n) ==
            /\ Syntax(From(s, n), int, SubSeq(s, 1, n))
            /\ (neg \/ Tailed(From(s, n), int, SubSeq(s, 1, n)))
        Pointed(neg, int, s) ==
            IF s # <<>> /\ s[1] = 46
            THEN Fraction(neg, int, Tail(s), LeadingCount(Tail(s), digit))
            ELSE /\ Syntax(s, int, <<>>)
                 /\ (neg \/ Tailed(s, int, <<>>))
        Mantissa(neg, s, n) == Pointed(neg, SubSeq(s, 1, n), From(s, n))
        Unsigned(neg, s) ==
            IF s = <<73, 110, 102, 105, 110, 105, 116, 121>> THEN neg
            ELSE Mantissa(neg, s, LeadingCount(s, digit))
        Radix(s, allowed) ==
            /\ s # <<>>
            /\ \A i \in DOMAIN s : s[i] \in allowed
            /\ \A i \in 1..(Len(s) - 1) : s[i] = 48
            /\ s[Len(s)] \in {48, 49}
        Trimmed(s) ==
            IF s = <<>> THEN TRUE
            ELSE IF Len(s) >= 2 /\ s[1] = 48 /\ s[2] \in {120, 88}
            THEN Radix(From(s, 2), Digits \cup (97..102) \cup (65..70))
            ELSE IF Len(s) >= 2 /\ s[1] = 48 /\ s[2] \in {111, 79}
            THEN Radix(From(s, 2), 48..55)
            ELSE IF Len(s) >= 2 /\ s[1] = 48 /\ s[2] \in {98, 66}
            THEN Radix(From(s, 2), {48, 49})
            ELSE IF s[1] \in {43, 45} THEN Unsigned(s[1] = 45, Tail(s))
            ELSE Unsigned(FALSE, s)
    IN  Trimmed(Reverse(SkipBlanks(Reverse(SkipBlanks(units)))))

\* The TypeError a handler runs into between its validation and its await,
\* or NoError: a length, limit or days that cannot be converted to a
\* primitive, and a query that is not a string and so has no toLowerCase.
NoError == ""
KeyError(req) ==
    CASE req.route = "market_search" ->
            IF LengthOf(req.arg).t = "value" /\ Throws(LengthOf(req.arg).v)
            THEN CannotConvert
            ELSE IF ~IsStr(req.arg) THEN "query.toLowerCase is not a function"
            ELSE NoError
      [] req.route = "market_trending" ->
            IF Throws(req.arg) THEN CannotConvert ELSE NoError
      [] req.route = "market_history" ->
            IF Throws(req.arg2) THEN CannotConvert ELSE NoError
      [] OTHER -> NoError

\* The cacheKey each handler builds.
cacheKey(req) ==
    CASE req.route \in {"player_search", "ban_check", "market_search"} ->
            (CASE req.route = "player_search" -> "player_"
               [] req.route = "ban_check" -> "ban_check_"
               [] req.route = "market_search" -> "market_search_")
            \o Join(toLowerCase(req.arg.s))
      [] req.route = "player_profile" -> "player_profile_" \o Join(req.arg.s)
      [] req.route = "ban_stats" -> "ban_stats_global"
      [] req.route = "market_item" -> "market_item_" \o Join(req.arg.s)
      [] req.route = "market_trending" ->
            "market_trending_" \o Join(NumText(limitNum(req.arg)))
      [] req.route = "market_history" ->
            "market_history_" \o Join(req.arg.s) \o "_" \o Join(daysText(req.arg2))

\* The duration each handler passes to getFromCache.
Duration(route) ==
    CASE route = "ban_check" -> BAN_CHECK_DURATION
      [] route = "ban_stats" -> BAN_STATS_DURATION
      [] route = "market_trending" -> TRENDING_DURATION
      [] route = "market_history" -> HISTORY_DURATION
      [] OTHER -> CACHE_DURATION

\* The timeout each handler gives axios.
Timeout(route) ==
    CASE route \in {"ban_check", "ban_stats"} -> BAN_API_TIMEOUT
      [] route = "market_history" -> HISTORY_TIMEOUT
      [] OTHER -> GRAPHQL_TIMEOUT

\* query.length < 2: the number of code units of a string, the number of
\* items of an array, the field length of an object, which is compared as
\* the number its string reads as; undefined < 2 is false.
TooShort(query) ==
    LET Below(length) ==
            CASE length.t = "number" -> length.n < 2
              [] length.t = "value" ->
                    ~Throws(length.v) /\ LessThanTwo(StringOf(length.v))
              [] OTHER -> FALSE
    IN  Below(LengthOf(query))

\* The 400 a handler answers before it builds the cache key, or NoError.
ValidationError(req) ==
    CASE req.route = "player_search" ->
            IF Falsy(req.arg) THEN "Username parameter is required"
            ELSE IF ~validateUsername(req.arg)
            THEN "Invalid username format. Username must be 3-20 characters and contain only alphanumeric characters, hyphens, and underscores."
            ELSE NoError
      [] req.route = "ban_check" ->
            IF Falsy(req.arg) THEN "Username parameter is required"
            ELSE IF ~validateUsername(req.arg) THEN "Invalid username format"
            ELSE NoError
      [] req.route = "market_search" ->
            IF Falsy(req.arg) THEN "Query parameter is required"
            ELSE IF TooShort(req.arg) THEN "Query must be at least 2 characters long"
            ELSE NoError
      [] OTHER -> NoError
----------------------------------------------------------------------------
(* What an upstream call can come back with.  Fail is anything that makes  *)
(* the awaited axios call throw: a network error, a non-2xx status, or the *)
(* timeout.                                                                *)

NumPayloads == 1

Obj(v) == [t |-> "object", v |-> v]
List(n) == [t |-> "array", length |-> n]
Atom(v) == [t |-> "atom", v |-> v]

Fail(message) == [t |-> "fail", message |-> message]
GqlErrors(message) == [t |-> "errors", message |-> message]
GqlData(value) == [t |-> "data", value |-> value]
RestBody(body) == [t |-> "body", body |-> body]
NoOutcome == [t |-> "none"]

TimedOut(route) == Fail("timeout of " \o IntToStr(Timeout(route)) \o "ms exceeded")

\* Outcomes that arrive before the timeout.
Outcomes(route) ==
    {Fail("Network Error")} \cup
    CASE route \in {"player_search", "player_profile", "market_item"} ->
            {GqlErrors(""), GqlErrors("Internal server error"), GqlData(Null)}
            \cup {GqlData(Obj(v)) : v \in 1..NumPayloads}
      [] route \in ListRoutes ->
            {GqlErrors(""), GqlData(Null)} \cup {GqlData(List(n)) : n \in 1..NumPayloads}
      [] route = "ban_check" ->
            {RestBody([banned |-> TRUE, source |-> "battleye"]),
             RestBody([banned |-> FALSE, source |-> ""])}
      [] route = "ban_stats" -> {RestBody([totalBans |-> n]) : n \in 1..NumPayloads}
      [] route = "market_history" ->
            {RestBody([history |-> List(n), price |-> n]) : n \in 1..NumPayloads}

\* The message each hard handler uses when the error has none.
DefaultError(route) ==
    CASE route = "player_search" -> "Failed to search for player"
      [] route = "player_profile" -> "Failed to fetch player profile"
      [] route = "ban_check" -> "Failed to check ban status"
      [] route = "ban_stats" -> "Failed to fetch ban statistics"
      [] route = "market_search" -> "Failed to search market items"
      [] route = "market_item" -> "Failed to fetch item data"
      [] route = "market_trending" -> "Failed to fetch trending items"
      [] route = "market_history" -> "Failed to fetch price history"

\* The message of the Error a producer throws on response.data.errors.
ThrownOnErrors(route) ==
    CASE route = "player_search" -> "Failed to fetch player data"
      [] route = "market_search" -> "Failed to search items"
      [] OTHER -> DefaultError(route)

Resolved(data) == [ok |-> TRUE, data |-> data, message |-> ""]
Rejected(message) == [ok |-> FALSE, data |-> Null, message |-> message]

\* Mutant: the producer swallows a failure and resolves with null.
HardProducer_Swallows(req, outcome) ==
    IF outcome.t = "data"
    THEN (IF req.route \in ListRoutes /\ outcome.value = Null THEN Resolved(List(0))
          ELSE Resolved(outcome.value))
    ELSE Resolved(IF req.route \in ListRoutes THEN List(0) ELSE Null)

\* The producers of the five GraphQL handlers: they throw on a failed call
\* and on an error list, and return the payload otherwise.
HardProducer(req, outcome) ==
    CASE outcome.t = "fail" -> Rejected(outcome.message)
      [] outcome.t = "errors" ->
            Rejected(IF outcome.message = "" THEN ThrownOnErrors(req.route)
                     ELSE outcome.message)
      [] outcome.t = "data" ->
            IF req.route \in ListRoutes /\ outcome.value = Null
            THEN Resolved(List(0))
            ELSE Resolved(outcome.value)

\* Mutant: the producer has no catch, so a failed call rejects.
BanCheckProducer_Throws(req, outcome) ==
    IF outcome.t = "body"
    THEN Resolved([username |-> req.arg,
                   isBanned |-> outcome.body.banned,
                   banReason |-> Null,
                   banDate |-> Null,
                   banType |-> "unknown",
                   source |-> IF outcome.body.source = "" THEN "unknown"
                              ELSE outcome.body.source])
    ELSE Rejected(outcome.message)

\* The producer of GET /api/ban-check: try { axios.get ... } catch { fallback }.
BanCheckProducer(req, outcome) ==
    IF outcome.t = "body"
    THEN Resolved([username |-> req.arg,
                   isBanned |-> outcome.body.banned,
                   banReason |-> Null,
                   banDate |-> Null,
                   banType |-> "unknown",
                   source |-> IF outcome.body.source = "" THEN "unknown"
                              ELSE outcome.body.source])
    ELSE Resolved([username |-> req.arg,
                   isBanned |-> FALSE,
                   banReason |-> Null,
                   banDate |-> Null,
                   banType |-> "unknown",
                   source |-> "offline",
                   note |-> "Ban check service unavailable, player status unknown"])

\* The producer of GET /api/ban-stats; t is the time of new Date().
BanStatsProducer(outcome, t) ==
    IF outcome.t = "body"
    THEN Resolved([totalBans |-> outcome.body.totalBans,
                   activeHwidBans |-> 0,
                   activeAccountBans |-> 0,
                   temporaryBans |-> 0,
                   lastUpdate |-> t,
                   sources |-> List(0)])
    ELSE Resolved([totalBans |-> 0,
                   activeHwidBans |-> 0,
                   activeAccountBans |-> 0,
                   temporaryBans |-> 0,
                   lastUpdate |-> t,
                   sources |-> List(0),
                   note |-> "Ban statistics unavailable"])

\* Mutant: the fallback carries no note.
HistoryProducer_Unmarked(req, outcome) ==
    IF outcome.t = "body"
    THEN Resolved([itemId |-> req.arg,
                   data |-> outcome.body.history,
                   min |-> outcome.body.price,
                   max |-> outcome.body.price,
                   average |-> outcome.body.price])
    ELSE Resolved([itemId |-> req.arg,
                   data |-> List(0),
                   min |-> 0,
                   max |-> 0,
                   average |-> 0])

\* The producer of GET /api/market/history/:itemId.
HistoryProducer(req, outcome) ==
    IF outcome.t = "body"
    THEN Resolved([itemId |-> req.arg,
                   data |-> outcome.body.history,
                   min |-> outcome.body.price,
                   max |-> outcome.body.price,
                   average |-> outcome.body.price])
    ELSE Resolved([itemId |-> req.arg,
                   data |-> List(0),
                   min |-> 0,
                   max |-> 0,
                   average |-> 0,
                   note |-> "Price history unavailable"])

\* fn() of the request's handler, settled with `outcome` at time t.
Producer(req, outcome, t) ==
    CASE req.route = "ban_check" -> BanCheckProducer(req, outcome)
      [] req.route = "ban_stats" -> BanStatsProducer(outcome, t)
      [] req.route = "market_history" -> HistoryProducer(req, outcome)
      [] OTHER -> HardProducer(req, outcome)

----------------------------------------------------------------------------
(* Responses                                                               *)

Json(status, body) == [status |-> status, json |-> body]
Text(status, text) == [status |-> status, text |-> text]
NoResp == [status |-> 0]

\* Mutant: the error body lacks the success flag.
ErrorBody_NoFlag(message) == [error |-> message]

ErrorBody(message) == [error |-> message, success |-> FALSE]

\* What a handler sends once getFromCache has resolved with `data`.
Reply(route, data) ==
    CASE route = "player_search" ->
            IF data = Null THEN Json(404, ErrorBody("Player not found"))
            ELSE Json(200, [success |-> TRUE, data |-> data])
      [] route = "player_profile" ->
            IF data = Null THEN Json(404, ErrorBody("Player profile not found"))
            ELSE Json(200, [success |-> TRUE, data |-> data])
      [] route = "market_item" ->
            IF data = Null THEN Json(404, ErrorBody("Item not found"))
            ELSE Json(200, [success |-> TRUE, data |-> data])
      [] route \in ListRoutes ->
            Json(200, [success |-> TRUE, count |-> data.length, data |-> data])
      [] OTHER -> Json(200, [success |-> TRUE, data |-> data])

\* What a handler's catch block sends.
ErrorReply(route, message) ==
    Json(500, ErrorBody(IF message = "" THEN DefaultError(route) ELSE message))

\* What cors() sends for an OPTIONS request: status 204 and no body.
NoContent == [status |-> 204]

\* What the global error handler sends for the error err.
ErrorHandler(err) ==
    Json(500, [error |-> "Internal server error",
               message |-> IF workload.env.NODE_ENV = Atom("development")
                           THEN err.message ELSE "An error occurred",
               success |-> FALSE])

----------------------------------------------------------------------------
(* The cache (a Map) and getFromCache                                      *)

EmptyMap == [k \in {} |-> Null]
Put(m, k, v) == [x \in DOMAIN m \cup {k} |-> IF x = k THEN v ELSE m[x]]
Remove(m, k) == [x \in DOMAIN m \ {k} |-> m[x]]

\* Mutant: an entry whose age equals the duration still counts as fresh.
Fresh_Inclusive(key, duration) ==
    key \in DOMAIN cache /\ now - cache[key].timestamp <= duration

\* Mutant: the comparison is the wrong way round.
Fresh_Reversed(key, duration) ==
    key \in DOMAIN cache /\ now - cache[key].timestamp > duration

\* cached && Date.now() - cached.timestamp < duration
Fresh(key, duration) ==
    key \in DOMAIN cache /\ now - cache[key].timestamp < duration

\* Mutant: an entry that carries a note is never served.
getFromCache_RefetchesDegraded(key, duration) ==
    IF Fresh(key, duration) /\ "note" \notin DOMAIN cache[key].data
    THEN [hit |-> TRUE, data |-> cache[key].data]
    ELSE [hit |-> FALSE, data |-> Null]

\* Mutant: a cached null is served whatever its age.
getFromCache_NullForever(key, duration) ==
    IF key \in DOMAIN cache /\ (cache[key].data = Null \/ Fresh(key, duration))
    THEN [hit |-> TRUE, data |-> cache[key].data]
    ELSE [hit |-> FALSE, data |-> Null]

\* The synchronous part of getFromCache: the cached data, or a miss.
getFromCache(key, duration) ==
    IF Fresh(key, duration) THEN [hit |-> TRUE, data |-> cache[key].data]
    ELSE [hit |-> FALSE, data |-> Null]

\* Mutant: an overwrite keeps the timestamp of the entry it replaces.
CacheSet_KeepsTimestamp(key, data) ==
    Put(cache, key, [data |-> data,
                     timestamp |-> IF key \in DOMAIN cache THEN cache[key].timestamp
                                   ELSE now])

\* cache.set(key, { data, timestamp: Date.now() })
CacheSet(key, data) == Put(cache, key, [data |-> data, timestamp |-> now])

\* The requests that wrote the entry of key, oldest first.
Writers(key) == IF key \in DOMAIN writer THEN writer[key] ELSE <<>>


\* What a step does to the program's state, and what it answers.
Effect(c, f, j, w, hit, invoked, stored, key, resp) ==
    [cache |-> c, inflight |-> f, jobs |-> j, writer |-> w, hit |-> hit,
     invoked |-> invoked, stored |-> stored, key |-> key, resp |-> resp]

Answer(resp) == Effect(cache, inflight, jobs, writer, FALSE, FALSE, FALSE, "", resp)

Pending(id, client, req, key) ==
    [id |-> id, client |-> client, req |-> req, key |-> key, issuedAt |-> now]

\* A promise job of request r: the continuation of its producer ("resume"),
\* the callback getFromCache gave to then ("then"), or the continuation of
\* its handler ("reply").  cached tells that the value was read from the
\* cache; p is what the producer settled with.
NoResult == [ok |-> FALSE, data |-> Null, message |-> "pending"]
Job(kind, r, cached, outcome, p) ==
    [kind |-> kind, id |-> r.id, client |-> r.client, req |-> r.req, key |-> r.key,
     issuedAt |-> r.issuedAt, cached |-> cached, outcome |-> outcome, p |-> p]

\* Mutant: a miss on a key that already has a call in flight waits for that
\* call instead of issuing its own.
CachedHandler_Coalescing(id, client, req) ==
    LET Await(key, cached, r) ==
         IF cached.hit
         THEN Effect(cache, inflight,
                     Append(jobs, Job("reply", r, TRUE, NoOutcome, Resolved(cached.data))),
                     writer, TRUE, FALSE, FALSE, key, NoResp)
         ELSE IF \E q \in inflight : q.key = key
         THEN Effect(cache, inflight, jobs, writer, FALSE, FALSE, FALSE, key, NoResp)
         ELSE Effect(cache, inflight \cup {r}, jobs, writer,
                     FALSE, TRUE, FALSE, key, NoResp)
        Lookup(key) ==
            Await(key, getFromCache(key, Duration(req.route)),
                  Pending(id, client, req, key))
        Validated(error) ==
            IF error # NoError THEN Answer(Json(400, ErrorBody(error)))
            ELSE IF KeyError(req) # NoError
            THEN Answer(ErrorReply(req.route, KeyError(req)))
            ELSE Lookup(cacheKey(req))
    IN  Validated(ValidationError(req))

\* Mutant: a hit refreshes the timestamp of the entry it serves.
CachedHandler_TouchesOnHit(id, client, req) ==
    LET Await(key, cached, r) ==
         IF cached.hit
         THEN Effect(CacheSet(key, cached.data), inflight,
                     Append(jobs, Job("reply", r, TRUE, NoOutcome, Resolved(cached.data))),
                     writer, TRUE, FALSE, FALSE, key, NoResp)
         ELSE Effect(cache, inflight \cup {r}, jobs, writer,
                     FALSE, TRUE, FALSE, key, NoResp)
        Lookup(key) ==
            Await(key, getFromCache(key, Duration(req.route)),
                  Pending(id, client, req, key))
        Validated(error) ==
            IF error # NoError THEN Answer(Json(400, ErrorBody(error)))
            ELSE IF KeyError(req) # NoError
            THEN Answer(ErrorReply(req.route, KeyError(req)))
            ELSE Lookup(cacheKey(req))
    IN  Validated(ValidationError(req))

\* Mutant: a lookup that finds a stale entry deletes it.
CachedHandler_EvictsStale(id, client, req) ==
    LET Await(key, cached, r) ==
         IF cached.hit
         THEN Effect(cache, inflight,
                     Append(jobs, Job("reply", r, TRUE, NoOutcome, Resolved(cached.data))),
                     writer, TRUE, FALSE, FALSE, key, NoResp)
         ELSE Effect(Remove(cache, key), inflight \cup {r}, jobs, Remove(writer, key),
                     FALSE, TRUE, FALSE, key, NoResp)
        Lookup(key) ==
            Await(key, getFromCache(key, Duration(req.route)),
                  Pending(id, client, req, key))
        Validated(error) ==
            IF error # NoError THEN Answer(Json(400, ErrorBody(error)))
            ELSE IF KeyError(req) # NoError
            THEN Answer(ErrorReply(req.route, KeyError(req)))
            ELSE Lookup(cacheKey(req))
    IN  Validated(ValidationError(req))

\* The eight handlers that go through getFromCache, up to their await: the
\* validation, the cache key, the check; on a hit the promise of the cached
\* data, whose continuation is a job, and on a miss the call of fn().
CachedHandler(id, client, req) ==
    LET Await(key, cached, r) ==
         IF cached.hit
         THEN Effect(cache, inflight,
                     Append(jobs, Job("reply", r, TRUE, NoOutcome, Resolved(cached.data))),
                     writer, TRUE, FALSE, FALSE, key, NoResp)
         ELSE Effect(cache, inflight \cup {r}, jobs, writer,
                     FALSE, TRUE, FALSE, key, NoResp)
        Lookup(key) ==
            Await(key, getFromCache(key, Duration(req.route)),
                  Pending(id, client, req, key))
        Validated(error) ==
            IF error # NoError THEN Answer(Json(400, ErrorBody(error)))
            ELSE IF KeyError(req) # NoError
            THEN Answer(ErrorReply(req.route, KeyError(req)))
            ELSE Lookup(cacheKey(req))
    IN  Validated(ValidationError(req))

\* Mutant: a failed call is issued again instead of being answered.
Settle_Retries(r, outcome) ==
    IF outcome.t = "fail"
    THEN Effect(cache, (inflight \ {r}) \cup {[r EXCEPT !.issuedAt = now]}, jobs,
                writer, FALSE, FALSE, FALSE, r.key, NoResp)
    ELSE
    Effect(cache, inflight \ {r}, Append(jobs, Job("resume", r, FALSE, outcome, NoResult)),
           writer, FALSE, FALSE, FALSE, r.key, NoResp)

\* The awaited axios call of request r settles: the continuation of the
\* producer is queued.
Settle(r, outcome) ==
    Effect(cache, inflight \ {r}, Append(jobs, Job("resume", r, FALSE, outcome, NoResult)),
           writer, FALSE, FALSE, FALSE, r.key, NoResp)

\* The rest of fn(): the producer returns or throws, which settles its
\* promise and queues the callback given to then.
Resume(j) ==
    Effect(cache, inflight,
           Append(Tail(jobs),
                  [j EXCEPT !.kind = "then", !.p = Producer(j.req, j.outcome, now)]),
           writer, FALSE, FALSE, FALSE, j.key, NoResp)

\* Mutant: the entry is stamped with the time the call was issued.
Then_StampsIssueTime(j) ==
    IF j.p.ok
    THEN Effect(Put(cache, j.key, [data |-> j.p.data, timestamp |-> j.issuedAt]),
                inflight,
                Append(Tail(jobs), [j EXCEPT !.kind = "reply"]),
                Put(writer, j.key, Append(Writers(j.key), j.id)),
                FALSE, FALSE, TRUE, j.key, NoResp)
    ELSE Effect(cache, inflight, Append(Tail(jobs), [j EXCEPT !.kind = "reply"]),
                writer, FALSE, FALSE, FALSE, j.key, NoResp)

\* fn().then(data => { cache.set(...); return data }): the callback runs for
\* a value and is passed over for a rejection; either way the promise the
\* handler awaits settles and the handler's continuation is queued.
Then(j) ==
    IF j.p.ok
    THEN Effect(CacheSet(j.key, j.p.data), inflight,
                Append(Tail(jobs), [j EXCEPT !.kind = "reply"]),
                Put(writer, j.key, Append(Writers(j.key), j.id)),
                FALSE, FALSE, TRUE, j.key, NoResp)
    ELSE Effect(cache, inflight, Append(Tail(jobs), [j EXCEPT !.kind = "reply"]),
                writer, FALSE, FALSE, FALSE, j.key, NoResp)

\* The handler after its await: res.json with the data, or its catch block.
Respond(j) ==
    Effect(cache, inflight, Tail(jobs), writer, FALSE, FALSE, FALSE, j.key,
           IF j.p.ok THEN Reply(j.req.route, j.p.data)
           ELSE ErrorReply(j.req.route, j.p.message))

\* process.env.ADMIN_KEY || 'admin-secret-key'
expectedKey ==
    IF workload.env.ADMIN_KEY \in {Undefined, Atom("")} THEN Atom(DEFAULT_ADMIN_KEY)
    ELSE workload.env.ADMIN_KEY

\* adminKey !== expectedKey
Authorized(req) == req.adminKey = expectedKey

Unauthorized == Json(401, ErrorBody("Unauthorized"))

\* Mutant: the size is read after the clear.
AdminClearHandler_CountsAfter(req) ==
    IF ~Authorized(req) THEN Answer(Unauthorized)
    ELSE Effect(EmptyMap, inflight, jobs, EmptyMap, FALSE, FALSE, FALSE, "",
                Json(200, [success |-> TRUE,
                           message |-> "Cache cleared. "
                                       \o IntToStr(Cardinality(DOMAIN EmptyMap))
                                       \o " entries removed."]))

\* Mutant: the clear also cancels the calls in flight.
AdminClearHandler_CancelsInflight(req) ==
    IF ~Authorized(req) THEN Answer(Unauthorized)
    ELSE Effect(EmptyMap, {}, jobs, EmptyMap, FALSE, FALSE, FALSE, "",
                Json(200, [success |-> TRUE,
                           message |-> "Cache cleared. "
                                       \o IntToStr(Cardinality(DOMAIN cache))
                                       \o " entries removed."]))

\* POST /api/admin/cache/clear
AdminClearHandler(req) ==
    IF ~Authorized(req) THEN Answer(Unauthorized)
    ELSE Effect(EmptyMap, inflight, jobs, EmptyMap, FALSE, FALSE, FALSE, "",
                Json(200, [success |-> TRUE,
                           message |-> "Cache cleared. "
                                       \o IntToStr(Cardinality(DOMAIN cache))
                                       \o " entries removed."]))

\* clearCache(key)
clearCache(key) == Remove(cache, key)

\* Mutant: the handler clears the whole cache.
AdminClearKeyHandler_ClearsAll(req) ==
    IF ~Authorized(req) THEN Answer(Unauthorized)
    ELSE LET key == Join(req.arg.s)
             existed == key \in DOMAIN cache
         IN  Effect(IF existed THEN EmptyMap ELSE cache, inflight, jobs,
                    IF existed THEN EmptyMap ELSE writer,
                    FALSE, FALSE, FALSE, key,
                    Json(200, [success |-> TRUE,
                               message |-> "Cache key '" \o key \o "' cleared.",
                               existed |-> existed]))

\* Mutant: the handler looks the key up before it checks the credential.
AdminClearKeyHandler_ChecksKeyFirst(req) ==
    LET key == Join(req.arg.s)
        existed == key \in DOMAIN cache
    IN  IF ~existed THEN Answer(Json(404, ErrorBody("Cache key not found")))
        ELSE IF ~Authorized(req) THEN Answer(Unauthorized)
        ELSE Effect(IF existed THEN clearCache(key) ELSE cache, inflight, jobs,
                    IF existed THEN Remove(writer, key) ELSE writer,
                    FALSE, FALSE, FALSE, key,
                    Json(200, [success |-> TRUE,
                               message |-> "Cache key '" \o key \o "' cleared.",
                               existed |-> existed]))

\* POST /api/admin/cache/clear/:key
AdminClearKeyHandler(req) ==
    IF ~Authorized(req) THEN Answer(Unauthorized)
    ELSE LET key == Join(req.arg.s)
             existed == key \in DOMAIN cache
         IN  Effect(IF existed THEN clearCache(key) ELSE cache, inflight, jobs,
                    IF existed THEN Remove(writer, key) ELSE writer,
                    FALSE, FALSE, FALSE, key,
                    Json(200, [success |-> TRUE,
                               message |-> "Cache key '" \o key \o "' cleared.",
                               existed |-> existed]))

\* GET /api/health
HealthHandler ==
    Answer(Json(200, [status |-> "ok", timestamp |-> now, uptime |-> now]))

\* The 404 handler; req.arg is the path.
NotFoundHandler(req) ==
    Answer(Json(404, [error |-> "Endpoint not found", path |-> req.arg.v,
                      method |-> req.method, success |-> FALSE]))

\* Express's routing of an admitted request.
Handle(id, client, req) ==
    CASE req.route \in CachedRoutes -> CachedHandler(id, client, req)
      [] req.route = "health" -> HealthHandler
      [] req.route = "admin_clear" -> AdminClearHandler(req)
      [] req.route = "admin_clear_key" -> AdminClearKeyHandler(req)
      [] OTHER -> NotFoundHandler(req)

----------------------------------------------------------------------------
(* The middleware mounted before the limiter                               *)

\* app.use(cors()): an OPTIONS request is answered 204 and goes no further.
cors(req) == IF req.method = "OPTIONS" THEN NoContent ELSE NoResp

\* app.use(express.json()): a body that does not parse goes to the global
\* error handler.
expressJson(req) ==
    IF req.body.t = "malformed" THEN ErrorHandler(req.body) ELSE NoResp

\* What the middleware before the limiter answers, NoResp if the request
\* passes it.
Early(req) == IF cors(req) # NoResp THEN cors(req) ELSE expressJson(req)

----------------------------------------------------------------------------
(* The rate limiter: one window per client, counted from its first request *)

\* The client's window at this request: a new one if it has none or if the
\* old one has elapsed.
WindowElapsed(client) ==
    client \notin DOMAIN hits \/ now - hits[client].windowStart > WINDOW_MS

WindowOf(client) ==
    IF WindowElapsed(client) THEN [count |-> 0, windowStart |-> now]
    ELSE hits[client]

\* admit if count <= limit
Admitted(count) == count <= RATE_MAX

TooManyRequests == Text(429, RATE_MESSAGE)

----------------------------------------------------------------------------
(* The steps                                                               *)

NoReq == Req("none", Undefined, Undefined, Undefined)

\* What a step did: counted tells that the request reached the limiter,
\* admitted that the limiter let it through; cached and p are those of the
\* job a step ran.
Step(kind, id, client, req, counted, admitted, e, cached, outcome, p) ==
    [kind |-> kind, id |-> id, client |-> client, req |-> req,
     counted |-> counted, admitted |-> admitted, hit |-> e.hit,
     invoked |-> e.invoked, stored |-> e.stored, key |-> e.key,
     cached |-> cached, outcome |-> outcome, p |-> p, resp |-> e.resp]

Quiet(kind) ==
    Step(kind, 0, "", NoReq, FALSE, FALSE, Answer(NoResp), FALSE, NoOutcome, NoResult)

RECURSIVE SumOver(_, _)
SumOver(f, S) ==
    IF S = {} THEN 0
    ELSE LET t == CHOOSE x \in S : TRUE IN f[t] + SumOver(f, S \ {t})

\* The admissions of a client so far, by instant.
AdmitsOf(client) == IF client \in DOMAIN admits THEN admits[client] ELSE EmptyMap
AdmitsAt(client, t) ==
    IF t \in DOMAIN AdmitsOf(client) THEN AdmitsOf(client)[t] ELSE 0

\* The admissions of a client in its current window.
GrantedTo(client) == IF client \in DOMAIN granted THEN granted[client] ELSE 0

\* Mutant: the limiter keeps one window for all clients.
Arrive_SharedWindow(client, req) ==
    LET id == nreq + 1
        counted == Early(req) = NoResp
        w == WindowOf("*")
        count == w.count + 1
        admitted == counted /\ Admitted(count)
        prior == IF WindowElapsed("*") THEN 0 ELSE GrantedTo(client)
        Does(e) ==
            /\ cache' = e.cache
            /\ inflight' = e.inflight
            /\ jobs' = e.jobs
            /\ writer' = e.writer
            /\ last' = Step("arrive", id, client, req, counted, admitted, e, FALSE,
                            NoOutcome, NoResult)
    IN  /\ nreq' = id
        /\ hits' = IF counted
                   THEN Put(hits, "*", [count |-> count, windowStart |-> w.windowStart])
                   ELSE hits
        /\ granted' = IF counted
                      THEN Put(granted, client, prior + IF admitted THEN 1 ELSE 0)
                      ELSE granted
        /\ admits' = IF admitted
                     THEN Put(admits, client,
                              Put(AdmitsOf(client), now, AdmitsAt(client, now) + 1))
                     ELSE admits
        /\ Does(IF ~counted THEN Answer(Early(req))
             ELSE IF admitted THEN Handle(id, client, req)
             ELSE Answer(TooManyRequests))
        /\ UNCHANGED <<now, origin, workload>>

\* Mutant: the admin routes are mounted before the limiter, so the limiter
\* counts their requests but never stops them.
Arrive_AdminUnlimited(client, req) ==
    LET id == nreq + 1
        counted == Early(req) = NoResp
        w == WindowOf(client)
        count == w.count + 1
        admitted == counted /\ Admitted(count)
        prior == IF WindowElapsed(client) THEN 0 ELSE GrantedTo(client)
        Does(e) ==
            /\ cache' = e.cache
            /\ inflight' = e.inflight
            /\ jobs' = e.jobs
            /\ writer' = e.writer
            /\ last' = Step("arrive", id, client, req, counted, admitted, e, FALSE,
                            NoOutcome, NoResult)
    IN  /\ nreq' = id
        /\ hits' = IF counted
                   THEN Put(hits, client, [count |-> count, windowStart |-> w.windowStart])
                   ELSE hits
        /\ granted' = IF counted
                      THEN Put(granted, client, prior + IF admitted THEN 1 ELSE 0)
                      ELSE granted
        /\ admits' = IF admitted
                     THEN Put(admits, client,
                              Put(AdmitsOf(client), now, AdmitsAt(client, now) + 1))
                     ELSE admits
        /\ Does(IF ~counted THEN Answer(Early(req))
             ELSE IF admitted \/ req.route \in {"admin_clear", "admin_clear_key"}
             THEN Handle(id, client, req)
             ELSE Answer(TooManyRequests))
        /\ UNCHANGED <<now, origin, workload>>

\* A request of `client` arrives: cors, express.json, the limiter, then the
\* routed handler up to its first await.
Arrive(client, req) ==
    LET id == nreq + 1
        counted == Early(req) = NoResp
        w == WindowOf(client)
        count == w.count + 1
        admitted == counted /\ Admitted(count)
        prior == IF WindowElapsed(client) THEN 0 ELSE GrantedTo(client)
        Does(e) ==
            /\ cache' = e.cache
            /\ inflight' = e.inflight
            /\ jobs' = e.jobs
            /\ writer' = e.writer
            /\ last' = Step("arrive", id, client, req, counted, admitted, e, FALSE,
                            NoOutcome, NoResult)
    IN  /\ nreq' = id
        /\ hits' = IF counted
                   THEN Put(hits, client, [count |-> count, windowStart |-> w.windowStart])
                   ELSE hits
        /\ granted' = IF counted
                      THEN Put(granted, client, prior + IF admitted THEN 1 ELSE 0)
                      ELSE granted
        /\ admits' = IF admitted
                     THEN Put(admits, client,
                              Put(AdmitsOf(client), now, AdmitsAt(client, now) + 1))
                     ELSE admits
        /\ Does(IF ~counted THEN Answer(Early(req))
             ELSE IF admitted THEN Handle(id, client, req)
             ELSE Answer(TooManyRequests))
        /\ UNCHANGED <<now, origin, workload>>

Deadline(r) == r.issuedAt + Timeout(r.req.route)

\* Mutant: the call carries no timeout, so nothing happens at the deadline.
Settlements_NoTimeout(r) ==
    IF now < Deadline(r) THEN Outcomes(r.req.route) ELSE {}

\* How the upstream call of request r can settle now: with any outcome
\* before its timeout, with the timeout error at the timeout.
Settlements(r) ==
    IF now < Deadline(r) THEN Outcomes(r.req.route) ELSE {TimedOut(r.req.route)}

\* The number of writes under a key so far.
WritesOf(key) == IF key \in DOMAIN origin THEN origin[key].writes ELSE 0

\* The upstream call of request r settles.
UpstreamDone(r, outcome) ==
    /\ r \in inflight
    /\ outcome \in Settlements(r)
    /\ LET e == Settle(r, outcome) IN
        /\ cache' = e.cache
        /\ inflight' = e.inflight
        /\ jobs' = e.jobs
        /\ writer' = e.writer
        /\ last' = Step("settle", r.id, r.client, r.req, TRUE, TRUE, e, FALSE,
                        outcome, NoResult)
    /\ UNCHANGED <<now, hits, granted, admits, nreq, origin, workload>>

\* The promise job at the head of the queue runs.
RunJob(kind) ==
    /\ jobs # <<>>
    /\ Head(jobs).kind = kind
    /\ LET j == Head(jobs)
           e == CASE kind = "resume" -> Resume(j)
                  [] kind = "then" -> Then(j)
                  [] kind = "reply" -> Respond(j)
       IN
        /\ cache' = e.cache
        /\ inflight' = e.inflight
        /\ jobs' = e.jobs
        /\ writer' = e.writer
        /\ origin' = IF e.stored
                     THEN Put(origin, j.key,
                              [req |-> j.req, outcome |-> j.outcome, at |-> now,
                               writes |-> WritesOf(j.key) + 1])
                     ELSE origin
        /\ last' = Step(kind, j.id, j.client, j.req, TRUE, TRUE, e, j.cached,
                        j.outcome,
                        IF kind = "resume" THEN Producer(j.req, j.outcome, now) ELSE j.p)
    /\ UNCHANGED <<now, hits, granted, admits, nreq, workload>>

\* Time passes, to one of the run's instants or to the next timeout, and
\* never past the timeout of a call still in flight.  The clock is the wall
\* clock: it moves between two promise jobs as it does between two events.
Tick ==
    /\ \E t \in workload.instants \cup {Deadline(r) : r \in inflight} :
        /\ t > now
        /\ \A r \in inflight : t <= Deadline(r)
        /\ now' = t
    /\ last' = Quiet("tick")
    /\ UNCHANGED <<cache, hits, inflight, jobs, nreq, writer, granted, origin, admits,
                   workload>>

----------------------------------------------------------------------------
(* The requests and instants of the runs checked                           *)

MaxRequests == 3
MaxInflight == 2
MaxRateRequests == 103
MaxGateRequests == 103
MaxWarmup == 2
MaxOtherRequests == 2

UserBob == Str(Utf16(<<"B", "o", "b">>))
UserBobLower == Str(Utf16(<<"b", "o", "b">>))
UserShort == Str(Utf16(<<"a", "b">>))
UserBad == Str(Utf16(<<"b", "o", "b", "!">>))
ItemX == Str(Utf16(<<"x", "1">>))
PlayerP == Str(Utf16(<<"p", "7">>))
QueryAk == Str(Utf16(<<"A", "k">>))
UserProfileP == Str(Utf16(<<"p", "r", "o", "f", "i", "l", "e", "_", "p", "7">>))
QueryShort == Str(Utf16(<<"a">>))
\* The query ECU with E acute, in capitals and in small letters.
QueryEcu == Str(<<201, 67, 85>>)
QueryEcuLower == Str(<<233, 99, 117>>)

Get(route, arg) == Req(route, arg, Undefined, Undefined)
SearchBob == Get("player_search", UserBob)
SearchBobLower == Get("player_search", UserBobLower)
ProfileP == Get("player_profile", PlayerP)
SearchProfileP == Get("player_search", UserProfileP)
BanBob == Get("ban_check", UserBob)
BanBobLower == Get("ban_check", UserBobLower)
BanStats == Get("ban_stats", Undefined)
MarketSearchAk == Get("market_search", QueryAk)
MarketSearchEcu == Get("market_search", QueryEcu)
MarketSearchEcuLower == Get("market_search", QueryEcuLower)
\* ?query=ak&query=47
MarketSearchTwice == Get("market_search", QArray(<<Utf16(<<"a", "k">>), Utf16(<<"4", "7">>)>>))
\* ?query[a]=b, ?query[length]=1 and ?query[length][toString]=x
MarketSearchObject == Get("market_search", QObject([a |-> Str(Utf16(<<"b">>))]))
MarketSearchLength == Get("market_search", QObject([length |-> Str(Utf16(<<"1">>))]))
MarketSearchThrows ==
    Get("market_search", QObject([length |-> QObject([toString |-> Str(Utf16(<<"x">>))])]))
ItemX1 == Get("market_item", ItemX)
Trending == Get("market_trending", Undefined)
Trending5 == Get("market_trending", Str(Utf16(<<"5">>)))
\* ?limit=0x1A, ?limit=%095 and ?limit=5&limit=6
TrendingHex == Get("market_trending", Str(Utf16(<<"0", "x", "1", "A">>)))
TrendingTab == Get("market_trending", Str(<<9, 53>>))
TrendingTwice == Get("market_trending", QArray(<<Utf16(<<"5">>), Utf16(<<"6">>)>>))
\* ?limit[toString]=x and ?days[toString]=x
TrendingThrows == Get("market_trending", QObject([toString |-> Str(Utf16(<<"x">>))]))
HistoryThrows ==
    Req("market_history", ItemX, QObject([toString |-> Str(Utf16(<<"x">>))]), Undefined)
HistoryX == Get("market_history", ItemX)
HistoryX7 == Req("market_history", ItemX, Str(Utf16(<<"7">>)), Undefined)
Health == Get("health", Undefined)
Unknown == Get("unknown", Atom("/api/nope"))
Invalid ==
    {Get("player_search", Undefined), Get("player_search", UserShort),
     Get("player_search", UserBad), Get("ban_check", Undefined),
     Get("ban_check", UserShort), Get("market_search", Undefined),
     Get("market_search", QueryShort),
     Get("player_search", QArray(<<UserBob.s, UserBobLower.s>>))}

GoodKey == Atom(DEFAULT_ADMIN_KEY)
WrongKey == Atom("admin-secret")
OtherKey == Atom("k2")
ClearAll(adminKey) == Req("admin_clear", Undefined, Undefined, adminKey)
ClearKey(key, adminKey) == Req("admin_clear_key", Str(key), Undefined, adminKey)

\* A CORS preflight of a route, and a request whose JSON body does not parse.
Preflight(req) == [req EXCEPT !.method = "OPTIONS"]
\* The body is an opening brace alone.
Malformed(req) ==
    [req EXCEPT !.body =
        MalformedBody("Expected property name or '}' in JSON at position 1")]

\* The environment of the process: nothing set, ADMIN_KEY set, NODE_ENV set.
NoEnv == [ADMIN_KEY |-> Undefined, NODE_ENV |-> Undefined]
KeyEnv == [ADMIN_KEY |-> OtherKey, NODE_ENV |-> Atom("production")]
DevEnv == [ADMIN_KEY |-> Atom(""), NODE_ENV |-> Atom("development")]

KeyProfileP == Utf16(<<"p", "l", "a", "y", "e", "r", "_", "p", "r", "o", "f", "i", "l", "e", "_", "p", "7">>)
KeyBanStats == Utf16(<<"b", "a", "n", "_", "s", "t", "a", "t", "s", "_", "g", "l", "o", "b", "a", "l">>)
KeySearchAk == Utf16(<<"m", "a", "r", "k", "e", "t", "_", "s", "e", "a", "r", "c", "h", "_", "a", "k">>)
KeyItemX1 == Utf16(<<"m", "a", "r", "k", "e", "t", "_", "i", "t", "e", "m", "_", "x", "1">>)

\* The instants at which the clients of a run send requests: the start, and
\* each TTL of its requests and the millisecond after.
InstantsFor(requests) ==
    {0} \cup UNION {{Duration(r.route), Duration(r.route) + 1} :
                    r \in {q \in requests : q.route \in CachedRoutes}}

RunIn(env, requests) ==
    [requests |-> requests, clients |-> {"10.0.0.1"},
     instants |-> InstantsFor(requests), env |-> env]
Run(requests) == RunIn(NoEnv, requests)
\* A run whose clients send at the start only.
Burst(requests) == [Run(requests) EXCEPT !.instants = {0}]

Workloads ==
    {Run({SearchBob, SearchBobLower}),
     Run({ItemX1, ClearAll(GoodKey), ClearAll(WrongKey)}),
     RunIn(KeyEnv, {ItemX1, ClearAll(GoodKey), ClearAll(OtherKey)}),
     Run({BanBob, ClearAll(Undefined)}),
     Burst({BanBob, BanBobLower}),
     Run({ProfileP, ClearKey(KeyProfileP, GoodKey), ClearKey(KeyProfileP, WrongKey)}),
     Run({BanStats, HistoryX, ClearKey(KeyBanStats, GoodKey)}),
     Run({MarketSearchAk, ClearKey(KeySearchAk, Undefined),
          ClearKey(KeyItemX1, GoodKey)}),
     Run({HistoryX, HistoryX7}),
     Run({Trending}),
     Burst({Trending5, TrendingTab}),
     Burst({TrendingHex}),
     Burst({TrendingTwice}),
     Burst({MarketSearchEcu, MarketSearchEcuLower}),
     Burst({SearchProfileP, ProfileP}),
     Run({ItemX1, Preflight(ItemX1), Malformed(ClearAll(GoodKey))}),
     Run({ItemX1, Health, Unknown, MarketSearchTwice}),
     Run({ItemX1, Get("market_search", QueryShort), MarketSearchLength}),
     Burst({ItemX1, TrendingThrows, HistoryThrows, MarketSearchThrows}),
     Burst({ItemX1} \cup Invalid)}

\* One client sends more requests than the limiter admits, within one window
\* (up to its last millisecond) or across the end of it.
RateRun(instants) ==
    [requests |-> {Health, ClearAll(WrongKey)}, clients |-> {"10.0.0.1"},
     instants |-> instants, env |-> NoEnv]

\* One client sends health checks at the start of its window, in the last
\* millisecond of it, and in the millisecond after.
RateRunAcross ==
    [requests |-> {Health}, clients |-> {"10.0.0.1"},
     instants |-> {0, WINDOW_MS, WINDOW_MS + 1}, env |-> NoEnv]

RateWorkloads == {RateRun({0, WINDOW_MS}), RateRun({0, WINDOW_MS + 1}), RateRunAcross}

\* One client fills the cache with its first requests, then spends the rest
\* of its allowance on health checks, then sends requests of every kind at
\* and beyond the limiter's ceiling.
GateRunIn(env, requests) ==
    [requests |-> requests \cup {Health}, clients |-> {"10.0.0.1"},
     instants |-> {0}, env |-> env]
GateRun(requests) == GateRunIn(NoEnv, requests)

GateWorkloads ==
    {GateRun({ItemX1, ClearAll(GoodKey), ClearKey(KeyItemX1, GoodKey)}),
     GateRun({BanBob, Unknown, Get("market_search", QueryShort), ClearAll(WrongKey)}),
     GateRun({MarketSearchTwice, MarketSearchObject, Preflight(Health),
              Malformed(ClearAll(GoodKey))}),
     GateRun({MarketSearchLength, MarketSearchThrows, TrendingThrows, HistoryThrows}),
     GateRunIn(DevEnv, {ClearAll(GoodKey), Malformed(ClearAll(GoodKey))}),
     GateRunIn(KeyEnv, {ItemX1, ClearAll(GoodKey), ClearAll(OtherKey)})}

InitWith(W) ==
    /\ now = 0
    /\ cache = EmptyMap
    /\ hits = EmptyMap
    /\ inflight = {}
    /\ jobs = <<>>
    /\ nreq = 0
    /\ writer = EmptyMap
    /\ granted = EmptyMap
    /\ origin = EmptyMap
    /\ admits = EmptyMap
    /\ workload \in W
    /\ last = Quiet("start")

Init == InitWith(Workloads)

\* The promise jobs, by what the job at the head of the queue is.
ProducerResumes == RunJob("resume")
ThenCallback == RunJob("then")
HandlerResumes == RunJob("reply")

\* The requests being served: awaiting upstream or with a job queued.
Busy == Cardinality(inflight) + Len(jobs)

Next ==
    \/ Tick
    \/ \E client \in workload.clients, req \in workload.requests :
            /\ nreq < MaxRequests
            /\ Busy < MaxInflight
            /\ now \in workload.instants
            /\ Arrive(client, req)
    \/ \E r \in inflight : \E outcome \in Settlements(r) : UpstreamDone(r, outcome)
    \/ ProducerResumes
    \/ ThenCallback
    \/ HandlerResumes

Spec == Init /\ [][Next]_vars

\* The limiter on its own: many requests, none of which calls upstream.
InitRate == InitWith(RateWorkloads)

NextRate ==
    \/ Tick
    \/ \E client \in workload.clients, req \in workload.requests :
            nreq < MaxRateRequests /\ now \in workload.instants /\ Arrive(client, req)

SpecRate == InitRate /\ [][NextRate]_vars

\* Two clients: one sends more requests than the limiter admits, in one
\* window and in the next; the other sends a few, at any point in between.
HeavyClient == "10.0.0.1"
OtherClient == "10.0.0.2"

PairWorkloads ==
    {[requests |-> {Health}, clients |-> {HeavyClient, OtherClient},
      instants |-> {0, WINDOW_MS + 1}, env |-> NoEnv]}

InitPair == InitWith(PairWorkloads)

NextPair ==
    \/ Tick
    \/ \E req \in workload.requests :
            /\ nreq < MaxRateRequests
            /\ now \in workload.instants
            /\ Arrive(HeavyClient, req)
    \/ \E req \in workload.requests :
            /\ SumOver(AdmitsOf(OtherClient), DOMAIN AdmitsOf(OtherClient))
                 < MaxOtherRequests
            /\ now \in workload.instants
            /\ Arrive(OtherClient, req)

SpecPair == InitPair /\ [][NextPair]_vars

\* The server under the assumption that every upstream call settles (axios
\* resolves, rejects or raises its timeout error for each call it was
\* given) and that the promise jobs queued are run.
LiveWorkloads ==
    {Run({ItemX1, Health}), Run({HistoryX})}

InitLive == InitWith(LiveWorkloads)

CallSettles(id) ==
    \E r \in inflight : \E outcome \in Settlements(r) :
        r.id = id /\ UpstreamDone(r, outcome)

JobRuns == ProducerResumes \/ ThenCallback \/ HandlerResumes

SpecLive ==
    /\ InitLive
    /\ [][Next]_vars
    /\ \A id \in 1..MaxRequests : WF_vars(CallSettles(id))
    /\ WF_vars(JobRuns)

\* The limiter in front of the handlers: requests of every kind, before and
\* after the client has used up its allowance.
InitGate == InitWith(GateWorkloads)

NextGate ==
    \/ Tick
    \/ \E client \in workload.clients, req \in workload.requests :
            /\ nreq < MaxGateRequests
            /\ Busy < MaxInflight
            /\ now \in workload.instants
            /\ (nreq < MaxWarmup \/ nreq + 1 >= RATE_MAX \/ req = Health)
            /\ Arrive(client, req)
    \/ \E r \in inflight : \E outcome \in Settlements(r) : UpstreamDone(r, outcome)
    \/ ProducerResumes
    \/ ThenCallback
    \/ HandlerResumes

SpecGate == InitGate /\ [][NextGate]_vars

----------------------------------------------------------------------------
(* Properties.  last' is what the step being taken did, so an action       *)
(* formula relates it to the state the step started from.                  *)

\* The step s is an admitted, valid request of a handler that uses the cache.
CachedArrival(s) ==
    /\ s.kind = "arrive"
    /\ s.admitted
    /\ s.req.route \in CachedRoutes
    /\ ValidationError(s.req) = NoError
    /\ KeyError(s.req) = NoError

Answered(s) == s.resp # NoResp

\* The step s is the reply to a request that found its value in the cache,
\* or to one whose upstream call has settled.
CacheReply(s) == s.kind = "reply" /\ s.cached
FetchReply(s) == s.kind = "reply" /\ ~s.cached

\* The steps of a request between the settlement of its call and its reply.
Completion == {"settle", "resume", "then", "reply"}

LastWriter(key) == writer[key][Len(writer[key])]

\* This step has queued the reply of the arriving request, with `data` as
\* the value its handler is to be resumed with, behind the jobs there were.
HitQueued(data) ==
    /\ Len(jobs') = Len(jobs) + 1
    /\ SubSeq(jobs', 1, Len(jobs)) = jobs
    /\ LET j == jobs'[Len(jobs')] IN
        /\ j.kind = "reply"
        /\ j.cached
        /\ j.id = last'.id
        /\ j.req = last'.req
        /\ j.p = [ok |-> TRUE, data |-> data, message |-> ""]

\* A reply from the cache sends the value its request was resumed with.
CacheReplySends ==
    CacheReply(last') =>
        /\ jobs # <<>>
        /\ Head(jobs).cached
        /\ last'.id = Head(jobs).id
        /\ last'.resp = Reply(last'.req.route, Head(jobs).p.data)

C1_Step ==
    /\ CachedArrival(last') =>
        LET key == cacheKey(last'.req)
            ttl == Duration(last'.req.route)
            young == key \in DOMAIN cache /\ now - cache[key].timestamp < ttl
        IN  /\ last'.hit => /\ young
                            /\ ~last'.invoked
                            /\ HitQueued(cache[key].data)
            /\ ~young => /\ ~last'.hit
                         /\ last'.invoked
                         /\ jobs' = jobs
            /\ ~Answered(last')
    /\ CacheReplySends

\* C1: getFromCache resolves with the cached value, without calling fn, only
\* when the key has an entry of age strictly below the duration; in every
\* other case, an age equal to the duration included, it calls fn.  The
\* reply from the cache is the value read at that lookup.
C1_OnlyFreshIsServed == [][C1_Step]_vars

\* A request misses on an entry whose age is exactly its duration.
C1_Witness ==
    /\ CachedArrival(last)
    /\ last.invoked
    /\ last.key \in DOMAIN cache
    /\ now - cache[last.key].timestamp = Duration(last.req.route)

TTLs == {Duration(route) : route \in CachedRoutes} \cup {1}

\* C2: right after the store step of a miss has put v under k, a read of k
\* under any TTL returns v, and the handler is resumed from it without
\* calling its producer.
C2_ReadAfterStore ==
    (last.kind = "then" /\ last.stored) =>
        LET v == last.p.data
            again == CachedHandler(nreq + 1, last.client, last.req)
        IN  /\ \A ttl \in TTLs : getFromCache(last.key, ttl) = [hit |-> TRUE, data |-> v]
            /\ again.hit
            /\ ~again.invoked
            /\ again.inflight = inflight
            /\ again.jobs[Len(again.jobs)].p = [ok |-> TRUE, data |-> v, message |-> ""]

\* A producer has just overwritten an entry that was already there.
C2_Witness ==
    /\ last.kind = "then"
    /\ last.stored
    /\ Len(Writers(last.key)) >= 2

C3_Step ==
    /\ CachedArrival(last') =>
        LET key == cacheKey(last'.req) IN
        (/\ Writers(key) # <<>>
         /\ now - cache[key].timestamp < Duration(last'.req.route))
        => /\ last'.hit
           /\ ~last'.invoked
           /\ inflight' = inflight
           /\ cache' = cache
           /\ HitQueued(cache[key].data)
    /\ CacheReply(last') =>
        /\ inflight' = inflight
        /\ ~last'.invoked
        /\ last'.resp = Reply(last'.req.route, last'.p.data)

\* C3: once a request has stored a value for k, a later request for k that
\* arrives at an age below the TTL of the key's class, with no invalidation
\* in between, is resumed with the stored value and answered with it, and
\* issues no upstream call.
C3_ServedWithinTtl == [][C3_Step]_vars

\* A later request, at a later time, has been answered with what an earlier
\* one stored.
C3_Witness ==
    /\ CacheReply(last)
    /\ Answered(last)
    /\ Writers(last.key) # <<>>
    /\ LastWriter(last.key) < last.id
    /\ now > cache[last.key].timestamp
    /\ last.p.data = cache[last.key].data

InFlightFor(set, key) == {r \in set : r.key = key}

C4_Step ==
    /\ CachedArrival(last') =>
        LET key == cacheKey(last'.req) IN
        (/\ InFlightFor(inflight, key) # {}
         /\ ~(key \in DOMAIN cache
              /\ now - cache[key].timestamp < Duration(last'.req.route)))
        => /\ last'.invoked
           /\ Cardinality(InFlightFor(inflight', key))
                = Cardinality(InFlightFor(inflight, key)) + 1
    /\ last'.kind = "resume" =>
        last'.p = Producer(last'.req, last'.outcome, now)
    /\ last'.kind = "then" =>
        /\ last'.p = Head(jobs).p
        /\ last'.p.ok => /\ last'.stored
                         /\ cache'[last'.key] = [data |-> last'.p.data, timestamp |-> now]

\* C4: a request that misses while another request for the same key is in
\* flight issues its own upstream call, and every producer that succeeds
\* stores, so the entry is that of the producer that completed last.
C4_NoCoalescing == [][C4_Step]_vars

\* The request issued first completed last and overwrote the other's entry.
C4_Witness ==
    /\ last.kind = "then"
    /\ last.stored
    /\ Len(Writers(last.key)) >= 2
    /\ writer[last.key][Len(writer[last.key]) - 1] > last.id

\* The handler can write the request's parameters into a cache key: the
\* days of a history request is not an object whose toString is a field of its
\* own (such a request throws in the handler before any lookup or call).
HasKey(req) == req.route = "market_history" => ~Throws(req.arg2)

\* C5: a soft-path request (ban-check with a valid username, ban-stats,
\* price history) that gets as far as the cache lookup is always answered
\* success: true with data, whether it is served from the cache or its
\* upstream call succeeds, fails or times out; when the call failed or timed
\* out the data is the fallback, with a note (for ban-check: isBanned false,
\* source "offline").
C5_SoftNeverFails ==
    (/\ last.kind \in {"arrive", "reply"}
     /\ last.admitted
     /\ last.req.route \in SoftRoutes
     /\ ValidationError(last.req) = NoError
     /\ HasKey(last.req)
     /\ Answered(last))
    => /\ last.resp.status = 200
       /\ last.resp.json.success = TRUE
       /\ "data" \in DOMAIN last.resp.json
       /\ (FetchReply(last) /\ last.outcome.t = "fail") =>
            /\ "note" \in DOMAIN last.resp.json.data
            /\ last.req.route = "ban_check" =>
                /\ last.resp.json.data.isBanned = FALSE
                /\ last.resp.json.data.source = "offline"

\* The ban service timed out and the ban-check was answered.
C5_Witness ==
    /\ FetchReply(last)
    /\ last.req.route = "ban_check"
    /\ last.outcome = TimedOut("ban_check")
    /\ Answered(last)

C6_Step ==
    (/\ last'.kind \in Completion
     /\ ~last'.cached
     /\ last'.req.route \in HardRoutes
     /\ last'.outcome.t \in {"fail", "errors"})
    => /\ cache' = cache
       /\ ~last'.stored
       /\ last'.kind = "reply" =>
            /\ last'.resp.status = 500
            /\ last'.resp.json.success = FALSE
            /\ "data" \notin DOMAIN last'.resp.json

\* C6: when the upstream call of a hard-path request fails or returns an
\* error list, the request is answered success: false with no data, and the
\* cache is left exactly as it was.
C6_HardFailureReported == [][C6_Step]_vars

\* An error list came back while a stale entry of the key was in the cache,
\* and the request was answered.
C6_Witness ==
    /\ FetchReply(last)
    /\ last.req.route \in HardRoutes
    /\ last.outcome.t = "errors"
    /\ last.key \in DOMAIN cache

\* The configured secret: the environment's ADMIN_KEY, or the default where
\* none is set.
ConfiguredSecret ==
    IF workload.env.ADMIN_KEY \in {Undefined, Atom("")} THEN Atom("admin-secret-key")
    ELSE workload.env.ADMIN_KEY

AdminArrival(s, route) ==
    s.kind = "arrive" /\ s.admitted /\ s.req.route = route

C7_Step ==
    AdminArrival(last', "admin_clear") =>
        IF last'.req.adminKey = ConfiguredSecret
        THEN /\ DOMAIN cache' = {}
             /\ last'.resp =
                    Json(200, [success |-> TRUE,
                               message |-> "Cache cleared. "
                                           \o IntToStr(Cardinality(DOMAIN cache))
                                           \o " entries removed."])
        ELSE /\ cache' = cache
             /\ last'.resp.status = 401
             /\ last'.resp.json.success = FALSE

\* C7: clear-all with a credential other than the secret changes nothing and
\* reports an authorization failure; with the secret it reports the number
\* of entries present just before it and leaves the store empty, whatever
\* else is in flight.
C7_ClearAll == [][C7_Step]_vars

\* An authorized clear-all removed an entry while a request was in flight.
C7_Witness ==
    /\ AdminArrival(last, "admin_clear")
    /\ last.req.adminKey = ConfiguredSecret
    /\ last.resp.json.message = "Cache cleared. 1 entries removed."
    /\ inflight # {}

C8_Step ==
    (AdminArrival(last', "admin_clear_key") /\ last'.req.adminKey = ConfiguredSecret)
    => LET key == Join(last'.req.arg.s) IN
       IF key \in DOMAIN cache
       THEN /\ DOMAIN cache' = DOMAIN cache \ {key}
            /\ \A other \in DOMAIN cache' : cache'[other] = cache[other]
            /\ last'.resp.json.existed = TRUE
       ELSE /\ cache' = cache
            /\ last'.resp.json.existed = FALSE

\* C8: an authorized clear-key removes exactly the entry of a key that is
\* present, leaves every other entry as it was and reports existed = true;
\* for a key that is not present it reports existed = false and changes
\* nothing.
C8_ClearKey == [][C8_Step]_vars

\* An authorized clear-key removed its key and another entry remains.
C8_Witness ==
    /\ AdminArrival(last, "admin_clear_key")
    /\ last.req.adminKey = ConfiguredSecret
    /\ last.resp.json.existed = TRUE
    /\ DOMAIN cache # {}

C9_Step ==
    (/\ last'.kind = "arrive"
     /\ last'.admitted
     /\ last'.req.route \in {"admin_clear", "admin_clear_key"}
     /\ last'.req.adminKey # ConfiguredSecret)
    => /\ cache' = cache
       /\ last'.resp = Json(401, [error |-> "Unauthorized", success |-> FALSE])

\* C9: an admin request whose x-admin-key is missing or wrong changes
\* nothing, and its response is the same fixed one whatever the cache holds.
C9_UnauthorizedIsBlind == [][C9_Step]_vars

\* An unauthorized clear-key named a key that is in the cache.
C9_Witness ==
    /\ AdminArrival(last, "admin_clear_key")
    /\ last.req.adminKey # ConfiguredSecret
    /\ Join(last.req.arg.s) \in DOMAIN cache

C10_Step ==
    (last'.kind = "arrive" /\ last'.counted) =>
        LET client == last'.client
            reset == client \notin DOMAIN hits
                     \/ now - hits[client].windowStart > 15 * 60 * 1000
            before == IF reset THEN 0 ELSE granted[client]
        IN  /\ last'.admitted <=> before < 100
            /\ ~last'.admitted => last'.resp.status = 429
            /\ granted'[client] = before + (IF last'.admitted THEN 1 ELSE 0)
            /\ granted'[client] <= 100
            /\ reset => hits'[client] = [count |-> 1, windowStart |-> now]

\* C10: within one window of 15 minutes the first 100 requests of a client
\* that reach the limiter are admitted and every further one is rejected;
\* the first request after the window has elapsed starts a new window and
\* is admitted.
C10_RateLimit == [][C10_Step]_vars

\* After 100 admissions and a rejection, the window elapsed and the client
\* was admitted again.
C10_Witness ==
    /\ last.kind = "arrive"
    /\ last.admitted
    /\ now = WINDOW_MS + 1
    /\ nreq = 102
    /\ granted[last.client] = 1

\* The logical request: the endpoint and its parameters as the handler
\* normalizes them (names and queries in lower case, the defaults filled in).
LogicalRequest(req) ==
    CASE req.route \in {"player_search", "ban_check", "market_search"} ->
            [route |-> req.route, params |-> <<toLowerCase(req.arg.s)>>]
      [] req.route \in {"player_profile", "market_item"} ->
            [route |-> req.route, params |-> <<req.arg.s>>]
      [] req.route = "ban_stats" -> [route |-> req.route, params |-> <<>>]
      [] req.route = "market_trending" ->
            [route |-> req.route, params |-> <<limitNum(req.arg)>>]
      [] req.route = "market_history" ->
            [route |-> req.route, params |-> <<req.arg.s, daysText(req.arg2)>>]

\* The valid requests the server holds a trace of: those whose value is in
\* the cache, those awaiting upstream, and the one just received.
Handled ==
    {origin[k].req : k \in DOMAIN cache} \cup {r.req : r \in inflight}
    \cup (IF CachedArrival(last) THEN {last.req} ELSE {})

\* C11: two requests that differ in endpoint or in normalized parameters
\* never have the same cache key.
C11_KeysCollisionFree ==
    \A a, b \in Handled :
        LogicalRequest(a) # LogicalRequest(b) => cacheKey(a) # cacheKey(b)

\* The request lacks its username or query, or the username is not 3 to 20
\* characters of [a-zA-Z0-9_-], or the query is shorter than 2 characters.
Missing(v) == v = Undefined \/ v = Str(<<>>)
FailsValidation(req) ==
    \/ /\ req.route \in {"player_search", "ban_check"}
       /\ \/ Missing(req.arg)
          \/ /\ IsStr(req.arg)
             /\ \/ Len(req.arg.s) < 3
                \/ Len(req.arg.s) > 20
                \/ \E i \in 1..Len(req.arg.s) : req.arg.s[i] \notin UsernameChars
    \/ /\ req.route = "market_search"
       /\ (Missing(req.arg) \/ (IsStr(req.arg) /\ Len(req.arg.s) < 2))

C12_Step ==
    (last'.kind = "arrive" /\ last'.admitted /\ FailsValidation(last'.req))
    => /\ last'.resp.status = 400
       /\ last'.resp.json.success = FALSE
       /\ ~last'.hit
       /\ ~last'.invoked
       /\ ~last'.stored
       /\ cache' = cache
       /\ inflight' = inflight
       /\ jobs' = jobs
       /\ origin' = origin

\* C12: a request that fails validation is answered 400 in the step in
\* which it arrives, without a cache lookup, a cache write or an upstream
\* call; the cache, the calls in flight and the jobs queued are as they
\* were.
C12_ValidationFirst == [][C12_Step]_vars

\* An invalid request was rejected while the cache held an entry and a call
\* was in flight.
C12_Witness ==
    /\ last.kind = "arrive"
    /\ last.admitted
    /\ FailsValidation(last.req)
    /\ last.resp.status = 400
    /\ DOMAIN cache # {}
    /\ inflight # {}

C13_Step ==
    /\ \A r \in inflight : r.id <= nreq
    /\ last'.kind = "arrive" =>
        /\ inflight \subseteq inflight'
        /\ Cardinality(inflight' \ inflight) <= 1
        /\ \A r \in inflight' \ inflight : r.id = nreq' /\ r.req = last'.req
        /\ nreq' = nreq + 1
    /\ last'.kind = "settle" =>
        /\ \E r \in inflight : r.id = last'.id
        /\ inflight' = {r \in inflight : r.id # last'.id}
        /\ jobs' = Append(jobs, jobs'[Len(jobs')])
        /\ jobs'[Len(jobs')].id = last'.id
        /\ jobs'[Len(jobs')].outcome = last'.outcome
    /\ last'.kind \in {"resume", "then", "reply", "tick"} => inflight' = inflight
    /\ FetchReply(last') =>
        /\ Answered(last')
        /\ last'.outcome.t = "fail" =>
            IF last'.req.route \in {"ban_check", "ban_stats", "market_history"}
            THEN /\ last'.resp.status = 200
                 /\ "note" \in DOMAIN last'.resp.json.data
            ELSE /\ last'.resp.status = 500
                 /\ last'.resp.json.success = FALSE

\* C13: a request issues at most one upstream call, under its own fresh id,
\* when it arrives; when the call settles its request goes on to its reply
\* and no call is issued in its place: after a failure or a timeout the
\* answer is the 500 of the hard path or the fallback of the soft path.
C13_NoRetry == [][C13_Step]_vars

\* A hard-path call timed out, the request was answered 500, and nothing is
\* in flight.
C13_Witness ==
    /\ FetchReply(last)
    /\ last.req.route \in HardRoutes
    /\ last.outcome = TimedOut(last.req.route)
    /\ last.resp.status = 500
    /\ inflight = {}

\* The write came from the failure path of a soft-path producer.
Degraded(write) ==
    /\ write.req.route \in {"ban_check", "ban_stats", "market_history"}
    /\ write.outcome.t = "fail"

Marked(data) == "note" \in DOMAIN data

\* The entries in the cache carry note exactly when a failure path wrote
\* them.
MarkedIffDegraded(c, o) ==
    \A k \in DOMAIN c : Marked(c[k].data) <=> Degraded(o[k])

C14_Step ==
    /\ MarkedIffDegraded(cache, origin)
    /\ MarkedIffDegraded(cache', origin')
    /\ (CachedArrival(last') /\ last'.hit) => HitQueued(cache[last'.key].data)
    /\ (/\ last'.kind = "reply"
        /\ last'.resp.status = 200
        /\ "data" \in DOMAIN last'.resp.json)
       => /\ last'.resp.json.data = Head(jobs).p.data
          /\ ~last'.cached =>
                (Marked(last'.resp.json.data)
                    <=> Degraded([req |-> last'.req, outcome |-> last'.outcome]))

\* C14: the data of a response carries note exactly when the value was
\* produced by the failure path of a soft-path producer: in the response of
\* the request whose call failed, in every entry of the cache, and so in
\* every response served from the cache, whose data is the entry read at
\* the lookup.
C14_NoteIffDegraded == [][C14_Step]_vars

\* A degraded result stored by an earlier request was served from the cache.
C14_Witness ==
    /\ CacheReply(last)
    /\ last.resp.status = 200
    /\ Marked(last.resp.json.data)
    /\ last.key \in DOMAIN cache
    /\ origin[last.key].outcome.t = "fail"
    /\ LastWriter(last.key) < last.id

C15_Step ==
    /\ (/\ last'.kind \in {"then", "reply"}
        /\ ~last'.cached
        /\ last'.req.route \in {"player_search", "player_profile", "market_item"}
        /\ last'.outcome = [t |-> "data", value |-> [t |-> "null"]])
       => IF last'.kind = "then"
          THEN cache'[last'.key] = [data |-> Null, timestamp |-> now]
          ELSE /\ last'.resp.status = 404
               /\ last'.resp.json.success = FALSE
               /\ "data" \notin DOMAIN last'.resp.json
    /\ (/\ CachedArrival(last')
        /\ last'.key \in DOMAIN cache
        /\ cache[last'.key].data = Null)
       => IF now - cache[last'.key].timestamp >= Duration(last'.req.route)
          THEN last'.invoked /\ ~last'.hit /\ jobs' = jobs
          ELSE last'.hit /\ ~last'.invoked /\ HitQueued(Null)
    /\ (CacheReply(last') /\ last'.p.data = Null
        /\ last'.req.route \in {"player_search", "player_profile", "market_item"})
       => last'.resp.status = 404
    /\ (last'.kind \in {"arrive", "reply"} /\ Answered(last')
        /\ last'.resp.status = 404 /\ last'.req.route \in CachedRoutes)
       => \/ FetchReply(last') /\ last'.outcome.t = "data"
          \/ CacheReply(last')

\* C15: when upstream returns null for a player, a profile or an item the
\* request is answered 404, which no success (200) and no upstream failure
\* (500) uses; the null is cached under the key, served as 404 while its age
\* is below the TTL of the route, and the first request at or after the TTL
\* calls upstream again.
C15_NotFound == [][C15_Step]_vars

\* A request found a cached null whose TTL had elapsed and went upstream.
C15_Witness ==
    /\ CachedArrival(last)
    /\ last.invoked
    /\ last.key \in DOMAIN cache
    /\ cache[last.key].data = Null
    /\ now - cache[last.key].timestamp > Duration(last.req.route)

Sent(s) == s.kind \in {"arrive", "reply"} /\ Answered(s)

\* The claim as stated: every response is a JSON body with a boolean
\* success, with data when it is true and error when it is false.
C16_EveryResponseEnveloped ==
    Sent(last) =>
        /\ "json" \in DOMAIN last.resp
        /\ "success" \in DOMAIN last.resp.json
        /\ last.resp.json.success \in BOOLEAN
        /\ last.resp.json.success => "data" \in DOMAIN last.resp.json
        /\ ~last.resp.json.success => "error" \in DOMAIN last.resp.json

\* C16: every response of a data endpoint, of an admin endpoint, of the 404
\* handler and of the error handler is a JSON body with a boolean success;
\* with success false it carries error and no data; with success true a
\* data endpoint carries data and an admin endpoint carries message
\* instead.  The health check answers status, timestamp and uptime without
\* success, a request the limiter rejects gets the plain-text message with
\* status 429, and a CORS preflight gets status 204 with no body.
C16_Envelope ==
    Sent(last) =>
        IF last.req.method = "OPTIONS"
        THEN last.resp = [status |-> 204]
        ELSE IF ~last.counted
        THEN /\ last.resp.status = 500
             /\ last.resp.json.success = FALSE
             /\ "error" \in DOMAIN last.resp.json
             /\ "data" \notin DOMAIN last.resp.json
        ELSE IF ~last.admitted
        THEN last.resp = [status |-> 429,
                          text |-> "Too many requests from this IP, please try again later."]
        ELSE IF last.req.route = "health"
        THEN /\ last.resp.status = 200
             /\ DOMAIN last.resp.json = {"status", "timestamp", "uptime"}
        ELSE /\ "json" \in DOMAIN last.resp
             /\ "success" \in DOMAIN last.resp.json
             /\ last.resp.json.success \in BOOLEAN
             /\ last.resp.json.success <=> last.resp.status = 200
             /\ ~last.resp.json.success =>
                    /\ "error" \in DOMAIN last.resp.json
                    /\ "data" \notin DOMAIN last.resp.json
             /\ last.resp.json.success =>
                    /\ "error" \notin DOMAIN last.resp.json
                    /\ IF last.req.route \in {"admin_clear", "admin_clear_key"}
                       THEN /\ "message" \in DOMAIN last.resp.json
                            /\ "data" \notin DOMAIN last.resp.json
                       ELSE "data" \in DOMAIN last.resp.json

\* The limiter rejected a request of a data endpoint with the text message.
C16_Witness ==
    /\ last.kind = "arrive"
    /\ last.counted
    /\ ~last.admitted
    /\ last.req.route \in CachedRoutes
    /\ "text" \in DOMAIN last.resp

C19_Step ==
    (last'.kind = "arrive" /\ last'.counted /\ ~last'.admitted)
    => /\ last'.resp = [status |-> 429,
                        text |-> "Too many requests from this IP, please try again later."]
       /\ ~last'.hit
       /\ ~last'.invoked
       /\ ~last'.stored
       /\ cache' = cache
       /\ inflight' = inflight
       /\ jobs' = jobs
       /\ origin' = origin

\* C19: a request the limiter rejects, whatever its route, is answered 429
\* without a cache lookup, a cache write or an upstream call: the cache,
\* the calls in flight and the jobs queued are as they were.
C19_LimiterFirst == [][C19_Step]_vars

\* The limiter rejected an authorized clear-all while the cache held an
\* entry.
C19_Witness ==
    /\ last.kind = "arrive"
    /\ last.counted
    /\ ~last.admitted
    /\ last.req.route = "admin_clear"
    /\ last.req.adminKey = ConfiguredSecret
    /\ last.req.body = NoBody
    /\ DOMAIN cache # {}

C17_Step ==
    /\ \A k \in DOMAIN cache : origin[k].at = cache[k].timestamp
    /\ \A k \in DOMAIN cache \cap DOMAIN cache' :
            cache'[k].timestamp >= cache[k].timestamp
    /\ \A k \in DOMAIN cache' \cap DOMAIN origin :
            cache'[k].timestamp >= origin[k].at
    /\ (last'.kind = "then" /\ last'.stored) =>
            cache'[last'.key] = [data |-> last'.p.data, timestamp |-> now]

\* C17: the timestamp under a key never decreases: not from one entry to
\* the entry that overwrites it, and not from the last entry a key had
\* before an invalidation to the entry that re-creates it; every write puts
\* a whole new entry stamped with the time of the write.
C17_StoredAtMonotone == [][C17_Step]_vars

\* An entry was re-created, at a later time, under a key that an admin
\* request had removed.
C17_Witness ==
    /\ last.kind = "then"
    /\ last.stored
    /\ origin[last.key].writes >= 2
    /\ Len(Writers(last.key)) = 1
    /\ now > 0

C18_Step ==
    /\ \A k \in DOMAIN cache :
        /\ k \notin DOMAIN cache' =>
                /\ last'.kind = "arrive"
                /\ last'.admitted
                /\ last'.req.adminKey = ConfiguredSecret
                /\ \/ last'.req.route = "admin_clear"
                   \/ last'.req.route = "admin_clear_key" /\ Join(last'.req.arg.s) = k
        /\ (k \in DOMAIN cache' /\ cache'[k] # cache[k]) =>
                /\ last'.kind = "then"
                /\ last'.key = k
                /\ last'.p.ok
    /\ (CachedArrival(last') /\ ~last'.hit) => cache' = cache

\* C18: an entry leaves the cache only in an authorized clear-all or
\* clear-key of its key, and changes only when a producer for its key
\* succeeds; a lookup that judges it stale, and a refresh that fails, leave
\* it as it was.
C18_ExpiryNeverDeletes == [][C18_Step]_vars

\* The refresh of a stale entry failed on the hard path, the request was
\* answered, and the entry is still in the cache.
C18_Witness ==
    /\ FetchReply(last)
    /\ last.req.route \in HardRoutes
    /\ last.outcome.t = "fail"
    /\ last.key \in DOMAIN cache
    /\ now - cache[last.key].timestamp >= Duration(last.req.route)

\* The admissions of a client at the instants from..(to - 1).
AdmittedIn(client, from, to) ==
    SumOver(admits[client], {t \in DOMAIN admits[client] : from <= t /\ t < to})

\* The claim as stated: no interval of 15 minutes holds more than 100
\* admissions of one client.
C20_SlidingWindow ==
    \A client \in DOMAIN admits : \A t \in DOMAIN admits[client] :
        AdmittedIn(client, t, t + 15 * 60 * 1000) <= 100

\* C20: the limiter bounds the admissions of a client per window, where a
\* window opens at the client's first request, or at its first request
\* after the previous window has elapsed: at most 100 requests are admitted
\* from the start of the client's current window on.
C20_PerWindow ==
    \A client \in DOMAIN admits :
        /\ client \in DOMAIN hits
        /\ AdmittedIn(client, hits[client].windowStart, now + 1) <= 100
        /\ AdmittedIn(client, hits[client].windowStart, now + 1)
             = (IF hits[client].count < 100 THEN hits[client].count ELSE 100)

\* More than 100 requests of one client were admitted within two
\* milliseconds, the last of one window and the first of the next.
C20_Witness ==
    /\ now = 15 * 60 * 1000 + 1
    /\ \E client \in DOMAIN admits :
            AdmitsAt(client, now - 1) + AdmitsAt(client, now) > 100

\* Two names of the same length that differ at most in the case of letters.
SameLetter(a, b) ==
    \/ a = b
    \/ a \in 65..90 /\ b = a + 32
    \/ b \in 65..90 /\ a = b + 32
SameIgnoringCase(x, y) ==
    Len(x) = Len(y) /\ \A i \in 1..Len(x) : SameLetter(x[i], y[i])

C21_Step ==
    (CachedArrival(last') /\ last'.req.route \in {"player_search", "ban_check"})
    => \A k \in DOMAIN cache :
        (/\ origin[k].req.route = last'.req.route
         /\ SameIgnoringCase(origin[k].req.arg.s, last'.req.arg.s)
         /\ now - cache[k].timestamp < Duration(last'.req.route))
        => /\ cacheKey(last'.req) = k
           /\ last'.hit
           /\ ~last'.invoked
           /\ inflight' = inflight
           /\ HitQueued(cache[k].data)

\* C21: a player search or ban check whose username differs only in letter
\* case from that of the request that stored the entry, arriving while the
\* entry is younger than the TTL, has the key of that entry and is resumed
\* with its value, with no upstream call.
C21_CaseInsensitive == [][C21_Step]_vars

\* A ban check was served the entry stored for the same name in another
\* case.
C21_Witness ==
    /\ CachedArrival(last)
    /\ last.req.route = "ban_check"
    /\ last.hit
    /\ origin[last.key].req.route = "ban_check"
    /\ origin[last.key].req.arg # last.req.arg

\* The number of places a request is waiting at: its call in flight, or a
\* job of its own in the queue.
Tokens(f, q, id) ==
    Cardinality({r \in f : r.id = id}) + Cardinality({i \in 1..Len(q) : q[i].id = id})

C22_Step ==
    /\ \A id \in 1..nreq' : Tokens(inflight', jobs', id) <= 1
    /\ \A r \in inflight' : r.id <= nreq'
    /\ \A i \in 1..Len(jobs') : jobs'[i].id <= nreq'
    /\ (last'.kind = "arrive" /\ last'.admitted) =>
        /\ last'.id = nreq + 1
        /\ Answered(last') <=> Tokens(inflight', jobs', last'.id) = 0
    /\ last'.kind \in {"settle", "resume", "then"} =>
        /\ Tokens(inflight, jobs, last'.id) = 1
        /\ Tokens(inflight', jobs', last'.id) = 1
        /\ ~Answered(last')
    /\ last'.kind = "settle" => ~(\E r \in inflight' : r.id = last'.id)
    /\ last'.kind = "reply" =>
        /\ Tokens(inflight, jobs, last'.id) = 1
        /\ Tokens(inflight', jobs', last'.id) = 0
        /\ Answered(last')
    /\ \A id \in 1..nreq : Tokens(inflight', jobs', id) <= Tokens(inflight, jobs, id)

\* C22: an admitted request is answered in the step in which it arrives or
\* else waits at exactly one place, its own upstream call or a promise job
\* of its own; the settlement of a call is possible in every state and the
\* job at the head of the queue can always run; the reply ends the wait and
\* nothing starts it again.  So, every call settling and every job being
\* run, every admitted request is eventually answered, and once.
C22_EveryRequestAnswered ==
    /\ [](\A r \in inflight : ENABLED (\E outcome \in Settlements(r) :
                                            UpstreamDone(r, outcome)))
    /\ [](jobs # <<>> => ENABLED JobRuns)
    /\ [][C22_Step]_vars
    /\ \A id \in 1..MaxRequests :
            (last.kind = "arrive" /\ last.admitted /\ last.id = id)
            ~> (last.id = id /\ Answered(last))

\* A price-history call ran into its timeout and the request was answered.
C22_Witness ==
    /\ FetchReply(last)
    /\ last.req.route = "market_history"
    /\ last.outcome = TimedOut("market_history")
    /\ now >= 10000
    /\ Answered(last)

Earliest(T) == CHOOSE t \in T : \A u \in T : t <= u

\* The start of the window a client is in, from the instants of its own
\* admissions: its first admission, then each first admission more than 15
\* minutes after the start before it.
RECURSIVE WindowStartFrom(_, _)
WindowStartFrom(s, T) ==
    LET later == {t \in T : t - s > 15 * 60 * 1000}
    IN  IF later = {} THEN s ELSE WindowStartFrom(Earliest(later), T)

\* Whether a request of the client arriving now is admitted, decided from
\* the client's own admissions and the clock alone.
OwnDecision(client) ==
    IF client \notin DOMAIN admits THEN TRUE
    ELSE LET T == DOMAIN admits[client]
             s == WindowStartFrom(Earliest(T), T)
         IN  IF now - s > 15 * 60 * 1000 THEN TRUE
             ELSE AdmittedIn(client, s, now + 1) < 100

C23_Step ==
    (last'.kind = "arrive" /\ last'.counted) =>
        /\ last'.admitted = OwnDecision(last'.client)
        /\ \A other \in DOMAIN hits \ {last'.client} : hits'[other] = hits[other]
        /\ DOMAIN hits' = DOMAIN hits \cup {last'.client}

\* C23: whether a request is admitted follows from the instants of the same
\* client's earlier admissions and the time of the request; a request
\* changes the window of its own client and of no other.
C23_PerClient == [][C23_Step]_vars

\* A client was admitted while another client was over its ceiling in the
\* same 15 minutes.
C23_Witness ==
    /\ last.kind = "arrive"
    /\ last.admitted
    /\ \E other \in DOMAIN hits \ {last.client} :
            /\ hits[other].count > 100
            /\ now - hits[other].windowStart <= 15 * 60 * 1000

C24_Step ==
    /\ (/\ last'.kind = "arrive"
        /\ last'.admitted
        /\ last'.req.route \in {"admin_clear", "admin_clear_key"}
        /\ last'.req.adminKey = ConfiguredSecret)
       => /\ inflight' = inflight
          /\ jobs' = jobs
    /\ (last'.kind = "then" /\ last'.p.ok)
       => /\ last'.stored
          /\ last'.key \in DOMAIN cache'
          /\ cache'[last'.key].data = last'.p.data

\* C24: an authorized clear-all or clear-key leaves every call in flight in
\* flight and every job queued, and a call whose producer succeeds stores
\* its result whether or not its key is in the cache; so a call issued
\* before a clear and completing after it puts an entry back.
C24_NoCancellation == [][C24_Step]_vars

\* Requests 1 and 2 missed on the same key, 1 stored, request 3 was the
\* authorized clear that removed the entry, and then 2 stored: the key has
\* had two writes, the entry has had one, and no request came after the
\* clear.
C24_Witness ==
    /\ last.kind = "then"
    /\ last.stored
    /\ last.id = 2
    /\ nreq = 3
    /\ origin[last.key].writes = 2
    /\ Writers(last.key) = <<2>>
    /\ last.key \in DOMAIN cache

\* The TTLs the claim names: 15 minutes for a ban check, 1 hour for the ban
\* statistics and a price history.
SoftTtl(route) ==
    IF route = "ban_check" THEN 15 * 60 * 1000 ELSE 60 * 60 * 1000

C25_Step ==
    /\ (/\ last'.kind \in {"then", "reply"}
        /\ ~last'.cached
        /\ last'.req.route \in {"ban_check", "ban_stats", "market_history"}
        /\ last'.outcome.t = "fail")
       => IF last'.kind = "then"
          THEN /\ last'.stored
               /\ Marked(cache'[last'.key].data)
               /\ cache'[last'.key].timestamp = now
               /\ cache'[last'.key].data = last'.p.data
          ELSE last'.resp.json.data = last'.p.data
    /\ (/\ CachedArrival(last')
        /\ last'.req.route \in {"ban_check", "ban_stats", "market_history"}
        /\ cacheKey(last'.req) \in DOMAIN cache
        /\ Marked(cache[cacheKey(last'.req)].data)
        /\ now - cache[cacheKey(last'.req)].timestamp < SoftTtl(last'.req.route))
       => /\ last'.hit
          /\ ~last'.invoked
          /\ inflight' = inflight
          /\ cache' = cache
          /\ HitQueued(cache[cacheKey(last'.req)].data)
    /\ (CacheReply(last')
        /\ last'.req.route \in {"ban_check", "ban_stats", "market_history"})
       => /\ last'.resp.status = 200
          /\ last'.resp.json.data = Head(jobs).p.data
          /\ inflight' = inflight

\* C25: when the upstream call of a soft-path request fails, the fallback
\* is stored under the key with the time of the write, and every request
\* for the key that arrives while the entry is younger than the TTL of its
\* class is resumed with that fallback and answered with it, and issues no
\* upstream call.
C25_DegradedIsCached == [][C25_Step]_vars

\* The fallback of a timed-out ban-statistics call has been served to a
\* later request, at a later time.
C25_Witness ==
    /\ CacheReply(last)
    /\ last.req.route = "ban_stats"
    /\ Marked(last.resp.json.data)
    /\ last.key \in DOMAIN cache
    /\ origin[last.key].outcome = TimedOut("ban_stats")
    /\ cache[last.key].data = last.resp.json.data
    /\ now > cache[last.key].timestamp

\* The two maps agree on every key but k.
SameExcept(m1, m2, k) ==
    /\ DOMAIN m1 \ {k} = DOMAIN m2 \ {k}
    /\ \A other \in DOMAIN m1 \ {k} : m1[other] = m2[other]

C26_Step ==
    /\ (CachedArrival(last') /\ last'.hit) => cache' = cache
    /\ CacheReply(last') => cache' = cache
    /\ (CachedArrival(last') /\ ~last'.hit /\ cache' # cache)
       => SameExcept(cache', cache, cacheKey(last'.req))
    /\ (last'.kind \in Completion /\ last'.req.route \in CachedRoutes /\ cache' # cache)
       => SameExcept(cache', cache, cacheKey(last'.req))

\* C26: a request answered from the cache leaves the cache as it is, at its
\* lookup and at its reply, the timestamp of the entry it was served
\* included; a request that misses changes, when it arrives and in the
\* steps that complete it, at most the entry of its own key.
C26_Frame == [][C26_Step]_vars

\* A request has been answered with an entry stored at an earlier time,
\* which still has that time, while another key has an entry as well.
C26_Witness ==
    /\ CacheReply(last)
    /\ last.key \in DOMAIN cache
    /\ cache[last.key].data = last.p.data
    /\ cache[last.key].timestamp < now
    /\ cache[last.key].timestamp = origin[last.key].at
    /\ DOMAIN cache # {last.key}

C27_Step ==
    IF last'.kind = "arrive"
    THEN LET client == last'.client
             reset == client \notin DOMAIN hits
                      \/ now - hits[client].windowStart > 15 * 60 * 1000
             before == IF reset THEN 0 ELSE hits[client].count
         IN  /\ client \in DOMAIN hits'
             /\ hits'[client].count = before + 1
             /\ hits'[client].windowStart
                  = (IF reset THEN now ELSE hits[client].windowStart)
    ELSE hits' = hits

\* C27: every request that arrives adds one to its client's count for the
\* current window, whatever its route and whatever the handler answers,
\* and nothing else changes a count.
C27_EveryRequestCounts == [][C27_Step]_vars
============================================================================
